---- MODULE Spec2Model ----
(***************************************************************************)
(* Shadow Maze: the maze generator (MazeGenerator), and the game session   *)
(* (ShadowMazeGame) with its countdown timer, frame loop, grid movement,   *)
(* collision test and win check.                                           *)
(***************************************************************************)
EXTENDS Integers, Sequences, FiniteSets, Bags, TLC

VARIABLES
  gen,    \* a MazeGenerator under generate(), on its own
  game,   \* the ShadowMazeGame object, with the browser state it lives in
  probe,  \* the last destination handed to canMoveTo, with the answer
  controls, \* the GameControls object, with what the input devices have reported
  light   \* the LightingSystem object, with the arguments of its last call

(***************************************************************************)
(* Bounds of the model                                                     *)
(***************************************************************************)
\* largest width / height generated with every outcome of every random draw
FreeMinSize == 3
FreeMaxW == 5
FreeMaxH == 5
\* number of pseudo-random streams tried on the larger mazes
NumSeeds == 2
\* most frame callbacks pending at once
MaxPending == 1
\* timestamps older than this are all alike to the code that reads them:
\* no less than the largest moveDuration and than inputDelay
Horizon == 160
\* the same for lastFrameTime: no less than the frame interval
FrameHorizon == 20
\* most keys held down at one look at the controls
MaxPressed == 2
\* how far outside the grid isWall and isPath are asked
OobMargin == 2
\* seconds left on the timer where the end of a game is taken up
LateSeconds == 2
\* most worked frames of the game played before the start looked at
MaxPriorFrames == 3
\* the window sizes tried for the maze size: this many steps on each axis
MaxWindowSteps == 7
\* most frame callbacks pending at once where quick restarts are looked at
MaxChains == 2
\* the light radii tried for the window of the visibility pass: this many
RadiusSteps == 8

(***************************************************************************)
(* Math.random()                                                           *)
(***************************************************************************)
\* rng = Free: every draw may return any value of its range.
\* rng >= 0:   the draws follow one fixed pseudo-random stream.
Free == -1
RngMod == 65537
NextRandom(r) == (r * 75 + 74) % RngMod

\* Math.floor(Math.random() * n): the set of <<value, next rng>>
RandomInt(r, n) ==
  IF r = Free THEN { <<v, Free>> : v \in 0..(n - 1) }
  ELSE { <<(NextRandom(r) * n) \div RngMod, NextRandom(r)>> }

(***************************************************************************)
(* MazeGenerator                                                           *)
(***************************************************************************)
Wall == 1
Path == 0

\* Up, Right, Down, Left
Directions ==
  << [x |-> 0, y |-> -1], [x |-> 1, y |-> 0], [x |-> 0, y |-> 1], [x |-> -1, y |-> 0] >>

initializeGrid(width, height) ==
  [y \in 0..(height - 1) |-> [x \in 0..(width - 1) |-> Wall]]

\* mutant: the exit placed on the border
MazeGenerator_exitOnBorder(width, height, rng, loopsFree) ==
  [ width |-> width, height |-> height,
    grid |-> initializeGrid(width, height),
    startPos |-> [x |-> 1, y |-> 1],
    exitPos |-> [x |-> width - 1, y |-> height - 1],
    pc |-> "constructed", stack |-> << >>, i |-> 0,
    rng |-> rng, loopsFree |-> loopsFree ]

\* mutant: the exit one cell short
MazeGenerator_exitShort(width, height, rng, loopsFree) ==
  [ width |-> width, height |-> height,
    grid |-> initializeGrid(width, height),
    startPos |-> [x |-> 1, y |-> 1],
    exitPos |-> [x |-> width - 3, y |-> height - 3],
    pc |-> "constructed", stack |-> << >>, i |-> 0,
    rng |-> rng, loopsFree |-> loopsFree ]

\* the object after the constructor, with the execution context of generate():
\* pc, the stack of carvePath activations, the loop counter i of
\* createAdditionalPaths, and the random source
MazeGenerator(width, height, rng, loopsFree) ==
  [ width |-> width, height |-> height,
    grid |-> initializeGrid(width, height),
    startPos |-> [x |-> 1, y |-> 1],
    exitPos |-> [x |-> width - 2, y |-> height - 2],
    pc |-> "constructed", stack |-> << >>, i |-> 0,
    rng |-> rng, loopsFree |-> loopsFree ]

isValidCell(g, x, y) ==
  x > 0 /\ x < g.width - 1 /\ y > 0 /\ y < g.height - 1

\* [directions[i], directions[j]] = [directions[j], directions[i]], 0-based i, j
Swap(s, i, j) == [s EXCEPT ![i + 1] = s[j + 1], ![j + 1] = s[i + 1]]

\* Fisher-Yates shuffle: the set of <<directions, next rng>>
getRandomDirections(r) ==
  UNION { UNION { { << Swap(Swap(Swap(Directions, 3, j3[1]), 2, j2[1]), 1, j1[1]), j1[2] >>
                    : j1 \in RandomInt(j2[2], 2) }
                  : j2 \in RandomInt(j3[2], 3) }
          : j3 \in RandomInt(r, 4) }

\* entry of carvePath(x, y): mark the cell, shuffle, start the for loop
carvePathCall(g, x, y) ==
  { [g EXCEPT !.grid[y][x] = Path,
              !.stack = Append(@, [x |-> x, y |-> y, rest |-> d[1]]),
              !.rng = d[2]]
    : d \in getRandomDirections(g.rng) }

\* mutant: the wall between the two cells is left standing
carvePathIter_keepWall(g) ==
  LET n    == Len(g.stack)
      f    == g.stack[n]
      dir  == Head(f.rest)
      newX == f.x + dir.x * 2
      newY == f.y + dir.y * 2
      g1   == [g EXCEPT !.stack[n].rest = Tail(@)]
  IN IF isValidCell(g, newX, newY) /\ g.grid[newY][newX] = Wall
     THEN carvePathCall(g1, newX, newY)
     ELSE { g1 }

\* mutant: the wall towards a cell that was visited before is opened as well
carvePathIter_openVisited(g) ==
  LET n    == Len(g.stack)
      f    == g.stack[n]
      dir  == Head(f.rest)
      newX == f.x + dir.x * 2
      newY == f.y + dir.y * 2
      g1   == [g EXCEPT !.stack[n].rest = Tail(@)]
  IN IF isValidCell(g, newX, newY) /\ g.grid[newY][newX] = Wall
     THEN carvePathCall([g1 EXCEPT !.grid[f.y + dir.y][f.x + dir.x] = Path], newX, newY)
     ELSE IF isValidCell(g, newX, newY)
          THEN { [g1 EXCEPT !.grid[f.y + dir.y][f.x + dir.x] = Path] }
          ELSE { g1 }

\* one iteration of the for loop of the innermost carvePath
carvePathIter(g) ==
  LET n    == Len(g.stack)
      f    == g.stack[n]
      dir  == Head(f.rest)
      newX == f.x + dir.x * 2
      newY == f.y + dir.y * 2
      g1   == [g EXCEPT !.stack[n].rest = Tail(@)]
  IN IF isValidCell(g, newX, newY) /\ g.grid[newY][newX] = Wall
     THEN carvePathCall([g1 EXCEPT !.grid[f.y + dir.y][f.x + dir.x] = Path], newX, newY)
     ELSE { g1 }

pathsToCreate(g) == (g.width * g.height * 2) \div 100

\* return of the innermost carvePath; the outermost one returns into
\* generate(), which clears start and exit and enters createAdditionalPaths
carvePathReturn(g) ==
  LET n  == Len(g.stack)
      g1 == [g EXCEPT !.stack = SubSeq(@, 1, n - 1)]
  IN IF n > 1 THEN g1
     ELSE [g1 EXCEPT !.grid[g.startPos.y][g.startPos.x] = Path,
                     !.grid[g.exitPos.y][g.exitPos.x] = Path,
                     !.pc = "loops", !.i = 0,
                     !.rng = IF g.loopsFree THEN Free ELSE @]

countAdjacentPaths(g, x, y) ==
  Cardinality({ k \in 1..4 :
      LET newX == x + Directions[k].x
          newY == y + Directions[k].y
      IN /\ newX >= 0 /\ newX < g.width /\ newY >= 0 /\ newY < g.height
         /\ g.grid[newY][newX] = Path })

\* mutant: the loop counter is not advanced
additionalPathTrial_noIncrement(g) ==
  UNION { { LET x == 1 + rx[1]
                y == 1 + ry[1]
                g1 == [g EXCEPT !.rng = ry[2]]
            IN IF g.grid[y][x] = Wall /\ countAdjacentPaths(g, x, y) >= 2
               THEN [g1 EXCEPT !.grid[y][x] = Path]
               ELSE g1
            : ry \in RandomInt(rx[2], g.height - 2) }
          : rx \in RandomInt(g.rng, g.width - 2) }

\* mutant: one adjacent Path cell is enough
additionalPathTrial_oneNeighbour(g) ==
  UNION { { LET x == 1 + rx[1]
                y == 1 + ry[1]
                g1 == [g EXCEPT !.i = @ + 1, !.rng = ry[2]]
            IN IF g.grid[y][x] = Wall /\ countAdjacentPaths(g, x, y) >= 1
               THEN [g1 EXCEPT !.grid[y][x] = Path]
               ELSE g1
            : ry \in RandomInt(rx[2], g.height - 2) }
          : rx \in RandomInt(g.rng, g.width - 2) }

\* one trial of createAdditionalPaths
additionalPathTrial(g) ==
  UNION { { LET x == 1 + rx[1]
                y == 1 + ry[1]
                g1 == [g EXCEPT !.i = @ + 1, !.rng = ry[2]]
            IN IF g.grid[y][x] = Wall /\ countAdjacentPaths(g, x, y) >= 2
               THEN [g1 EXCEPT !.grid[y][x] = Path]
               ELSE g1
            : ry \in RandomInt(rx[2], g.height - 2) }
          : rx \in RandomInt(g.rng, g.width - 2) }

\* with > for >= the cell just past the last column or row is read from the
\* grid, where it is undefined, and undefined === 1 is false
isWall_offByOne(g, x, y) ==
  IF x < 0 \/ x > g.width \/ y < 0 \/ y > g.height THEN TRUE
  ELSE IF x = g.width \/ y = g.height THEN FALSE
  ELSE g.grid[y][x] = Wall

isWall(g, x, y) ==
  IF x < 0 \/ x >= g.width \/ y < 0 \/ y >= g.height THEN TRUE
  ELSE g.grid[y][x] = Wall

isPath(g, x, y) ==
  IF x < 0 \/ x >= g.width \/ y < 0 \/ y >= g.height THEN FALSE
  ELSE g.grid[y][x] = Path

\* the successors of g by one step of generate()
generateSteps(g) ==
  CASE g.pc = "constructed" -> carvePathCall([g EXCEPT !.pc = "carve"], 1, 1)
    [] g.pc = "carve" /\ g.stack[Len(g.stack)].rest # << >> -> carvePathIter(g)
    [] g.pc = "carve" /\ g.stack[Len(g.stack)].rest = << >> -> { carvePathReturn(g) }
    [] g.pc = "loops" /\ g.i < pathsToCreate(g) -> additionalPathTrial(g)
    [] g.pc = "loops" /\ g.i >= pathsToCreate(g) -> { [g EXCEPT !.pc = "done"] }
    [] OTHER -> { }


\* n steps of generate() on one pseudo-random stream (rng # Free, where every
\* step has one successor), stopping where generate() returns
RECURSIVE RunGenerate(_, _)
RunGenerate(g, n) ==
  IF n = 0 \/ g.pc = "done" THEN g
  ELSE IF n = 1 THEN CHOOSE g1 \in generateSteps(g) : TRUE
  ELSE RunGenerate(RunGenerate(g, n \div 2), n - n \div 2)

(***************************************************************************)
(* ShadowMazeGame                                                          *)
(***************************************************************************)
\* lengths are kept in units of 1/PosDen pixel, which makes the interpolated
\* positions of the explored clock steps exact
PosDen == 8 * 9
\* milliseconds by which the clock advances between two looks at it
ClockSteps == { 45 }
\* the difficulty tiers played
PlayedTiers == { "hard" }
\* the windows tried: innerWidth, innerHeight
WindowSizes == { <<400, 400>>, <<300, 300>> }
\* the pseudo-random streams the game draws its mazes from
GameSeeds == { 1000 }

cellSize == 20
inputDelay == 80
\* 1000 / fps, rounded up to whole milliseconds
frameInterval == 17

\* mazeSizeMultiplier in tenths
difficultySettings ==
  [ easy   |-> [timeLimit |-> 90, mazeSizeMultiplier |-> 4, lightRadius |-> 120, moveDuration |-> 160],
    medium |-> [timeLimit |-> 60, mazeSizeMultiplier |-> 6, lightRadius |-> 100, moveDuration |-> 120],
    hard   |-> [timeLimit |-> 40, mazeSizeMultiplier |-> 8, lightRadius |-> 80, moveDuration |-> 90] ]

Tiers == { "easy", "medium", "hard" }
Keys == { "up", "down", "left", "right" }
PressedSets == { S \in SUBSET Keys : Cardinality(S) <= MaxPressed }

Min(a, b) == IF a < b THEN a ELSE b
Max(a, b) == IF a > b THEN a ELSE b

NullMaze ==
  [ width |-> 0, height |-> 0, grid |-> << >>,
    startPos |-> [x |-> 0, y |-> 0], exitPos |-> [x |-> 0, y |-> 0],
    pc |-> "null", stack |-> << >>, i |-> 0, rng |-> 0, loopsFree |-> FALSE ]
NullPlayer == [x |-> 0, y |-> 0, radius |-> 0, lightRadius |-> 0]

\* Date.now() and the frame timestamp read 0 at every look: the stored
\* timestamps are kept relative to the present and grow older as time passes
Long == -Horizon
Older(t, dt, horizon) == Max(t - dt, -horizon)

\* the session dt milliseconds later, nothing having run in between
Elapse(s, dt) ==
  [s EXCEPT !.moveStartTime = Older(@, dt, Horizon),
            !.lastInputTime = Older(@, dt, Horizon),
            !.lastFrameTime = Older(@, dt, FrameHorizon)]

\* what the game canvas shows before anything is painted on it
Blank == [maze |-> NullMaze, x |-> 0, y |-> 0]

resizeCanvas_keepEven(s) ==
  LET maxWidth10  == Min(s.window[1] * 9, 12800)
      maxHeight10 == Min(s.window[2] * 9, 8000)
      canvas == IF maxWidth10 * 10 > maxHeight10 * 16
                THEN [width |-> (maxHeight10 * 16) \div 100, height |-> maxHeight10 \div 10]
                ELSE [width |-> maxWidth10 \div 10, height |-> maxWidth10 \div 16]
      baseWidth  == canvas.width \div cellSize
      baseHeight == canvas.height \div cellSize
      s1 == [s EXCEPT !.canvas = canvas, !.drawn = Blank]
  IN IF s.selectedDifficulty \notin DOMAIN difficultySettings
     THEN [s1 EXCEPT !.uncaught = TRUE]
     ELSE LET difficulty == difficultySettings[s.selectedDifficulty]
              w0 == (baseWidth * difficulty.mazeSizeMultiplier) \div 10
              h0 == (baseHeight * difficulty.mazeSizeMultiplier) \div 10
          IN [s1 EXCEPT !.mazeWidth = Min(Max(w0, 15), 51),
                        !.mazeHeight = Min(Max(h0, 11), 31)]

resizeCanvas_dropMaze(s) ==
  LET maxWidth10  == Min(s.window[1] * 9, 12800)
      maxHeight10 == Min(s.window[2] * 9, 8000)
      canvas == IF maxWidth10 * 10 > maxHeight10 * 16
                THEN [width |-> (maxHeight10 * 16) \div 100, height |-> maxHeight10 \div 10]
                ELSE [width |-> maxWidth10 \div 10, height |-> maxWidth10 \div 16]
      baseWidth  == canvas.width \div cellSize
      baseHeight == canvas.height \div cellSize
      s1 == [s EXCEPT !.canvas = canvas, !.drawn = Blank, !.maze = NullMaze]
  IN IF s.selectedDifficulty \notin DOMAIN difficultySettings
     THEN [s1 EXCEPT !.uncaught = TRUE]
     ELSE LET difficulty == difficultySettings[s.selectedDifficulty]
              w0 == (baseWidth * difficulty.mazeSizeMultiplier) \div 10
              h0 == (baseHeight * difficulty.mazeSizeMultiplier) \div 10
              w1 == IF w0 % 2 = 0 THEN w0 - 1 ELSE w0
              h1 == IF h0 % 2 = 0 THEN h0 - 1 ELSE h0
          IN [s1 EXCEPT !.mazeWidth = Min(Max(w1, 15), 51),
                        !.mazeHeight = Min(Max(h1, 11), 31)]

\* canvas.width and canvas.height are integers: the assigned value is truncated,
\* and assigning either of them clears the canvas.  With a selectedDifficulty
\* that is not in the table, the read of difficulty.mazeSizeMultiplier throws
\* after the canvas has been assigned
resizeCanvas(s) ==
  LET maxWidth10  == Min(s.window[1] * 9, 12800)
      maxHeight10 == Min(s.window[2] * 9, 8000)
      canvas == IF maxWidth10 * 10 > maxHeight10 * 16
                THEN [width |-> (maxHeight10 * 16) \div 100, height |-> maxHeight10 \div 10]
                ELSE [width |-> maxWidth10 \div 10, height |-> maxWidth10 \div 16]
      baseWidth  == canvas.width \div cellSize
      baseHeight == canvas.height \div cellSize
      s1 == [s EXCEPT !.canvas = canvas, !.drawn = Blank]
  IN IF s.selectedDifficulty \notin DOMAIN difficultySettings
     THEN [s1 EXCEPT !.uncaught = TRUE]
     ELSE LET difficulty == difficultySettings[s.selectedDifficulty]
              w0 == (baseWidth * difficulty.mazeSizeMultiplier) \div 10
              h0 == (baseHeight * difficulty.mazeSizeMultiplier) \div 10
              w1 == IF w0 % 2 = 0 THEN w0 - 1 ELSE w0
              h1 == IF h0 % 2 = 0 THEN h0 - 1 ELSE h0
          IN [s1 EXCEPT !.mazeWidth = Min(Max(w1, 15), 51),
                        !.mazeHeight = Min(Max(h1, 11), 31)]

showScreen(s, screenId) == [s EXCEPT !.screen = screenId]

\* setInterval hands out an id that is not in use: the smallest one here
setInterval(s) ==
  CHOOSE id \in 1..(Cardinality(s.intervals) + 1) :
    id \notin s.intervals /\ \A k \in 1..(id - 1) : k \in s.intervals

clearInterval(s, id) == [s EXCEPT !.intervals = @ \ { id }]

startTimer(s) ==
  LET s1 == IF s.gameTimer # 0 THEN clearInterval(s, s.gameTimer) ELSE s
      id == setInterval(s1)
  IN [s1 EXCEPT !.gameTimer = id, !.intervals = @ \cup { id }]

startGameLoop(s) == [s EXCEPT !.rafPending = @ + 1]

endGame_keepTimer(s, victory) ==
  LET s1 == [s EXCEPT !.gameState = IF victory THEN "victory" ELSE "defeat"]
  IN showScreen(s1, IF victory THEN "victoryScreen" ELSE "gameOverScreen")

endGame_swapped(s, victory) ==
  LET s1 == [s EXCEPT !.gameState = IF victory THEN "defeat" ELSE "victory"]
      s2 == IF s1.gameTimer # 0 THEN clearInterval(s1, s1.gameTimer) ELSE s1
  IN showScreen(s2, IF victory THEN "gameOverScreen" ELSE "victoryScreen")

endGame(s, victory) ==
  LET s1 == [s EXCEPT !.gameState = IF victory THEN "victory" ELSE "defeat"]
      s2 == IF s1.gameTimer # 0 THEN clearInterval(s1, s1.gameTimer) ELSE s1
  IN showScreen(s2, IF victory THEN "victoryScreen" ELSE "gameOverScreen")

\* mutant: the callback counts two seconds at a time
timerCallback_twoSeconds(s) ==
  LET s1 == [s EXCEPT !.gameTime = @ - 2]
  IN IF s1.gameTime <= 0 THEN endGame(s1, FALSE) ELSE s1

\* mutant: the callback stops counting at 1 and so never ends the game
timerCallback_stopsAtOne(s) ==
  IF s.gameTime > 1 THEN [s EXCEPT !.gameTime = @ - 1] ELSE s

timerCallback_belowZero(s) ==
  LET s1 == [s EXCEPT !.gameTime = @ - 1]
  IN IF s1.gameTime < 0 THEN endGame(s1, FALSE) ELSE s1

\* the body of the setInterval callback
timerCallback(s) ==
  LET s1 == [s EXCEPT !.gameTime = @ - 1]
  IN IF s1.gameTime <= 0 THEN endGame(s1, FALSE) ELSE s1

\* new MazeGenerator(mazeWidth, mazeHeight) and generate(), on one stream;
\* generate() takes fewer than 2 + 6 * rooms + pathsToCreate steps
NewMaze(width, height, seed) ==
  RunGenerate(MazeGenerator(width, height, seed, FALSE), 2 * width * height)

startGame_keepMoving(s, seed) ==
  IF s.selectedDifficulty \notin DOMAIN difficultySettings
  THEN [s EXCEPT !.gameState = "playing", !.uncaught = TRUE]
  ELSE
  LET difficulty == difficultySettings[s.selectedDifficulty]
      s1 == resizeCanvas([s EXCEPT !.gameState = "playing",
                                   !.gameTime = difficulty.timeLimit,
                                   !.lastInputTime = Long])
      maze == NewMaze(s1.mazeWidth, s1.mazeHeight, seed)
      s2 == [s1 EXCEPT !.maze = maze,
                       !.player = [ x |-> (maze.startPos.x * cellSize + cellSize \div 2) * PosDen,
                                    y |-> (maze.startPos.y * cellSize + cellSize \div 2) * PosDen,
                                    radius |-> 8 * PosDen,
                                    lightRadius |-> difficulty.lightRadius ],
                       !.moveDuration = difficulty.moveDuration,
                       !.lastInputTime = Long]
  IN startGameLoop(showScreen(startTimer(s2), "gameHUD"))

startGame_defaulted(s, seed) ==
  LET s0 == IF s.selectedDifficulty \in DOMAIN difficultySettings
            THEN s ELSE [s EXCEPT !.selectedDifficulty = "medium"]
      difficulty == difficultySettings[s0.selectedDifficulty]
      s1 == resizeCanvas([s0 EXCEPT !.gameState = "playing",
                                    !.gameTime = difficulty.timeLimit,
                                    !.isMoving = FALSE,
                                    !.lastInputTime = Long])
      maze == NewMaze(s1.mazeWidth, s1.mazeHeight, seed)
      s2 == [s1 EXCEPT !.maze = maze,
                       !.player = [ x |-> (maze.startPos.x * cellSize + cellSize \div 2) * PosDen,
                                    y |-> (maze.startPos.y * cellSize + cellSize \div 2) * PosDen,
                                    radius |-> 8 * PosDen,
                                    lightRadius |-> difficulty.lightRadius ],
                       !.moveDuration = difficulty.moveDuration,
                       !.isMoving = FALSE,
                       !.lastInputTime = Long]
  IN startGameLoop(showScreen(startTimer(s2), "gameHUD"))

\* with a selectedDifficulty that is not in the table, difficulty is undefined
\* and the read of difficulty.timeLimit throws, gameState being assigned already
startGame(s, seed) ==
  IF s.selectedDifficulty \notin DOMAIN difficultySettings
  THEN [s EXCEPT !.gameState = "playing", !.uncaught = TRUE]
  ELSE
  LET difficulty == difficultySettings[s.selectedDifficulty]
      s1 == resizeCanvas([s EXCEPT !.gameState = "playing",
                                   !.gameTime = difficulty.timeLimit,
                                   !.isMoving = FALSE,
                                   !.lastInputTime = Long])
      maze == NewMaze(s1.mazeWidth, s1.mazeHeight, seed)
      s2 == [s1 EXCEPT !.maze = maze,
                       !.player = [ x |-> (maze.startPos.x * cellSize + cellSize \div 2) * PosDen,
                                    y |-> (maze.startPos.y * cellSize + cellSize \div 2) * PosDen,
                                    radius |-> 8 * PosDen,
                                    lightRadius |-> difficulty.lightRadius ],
                       !.moveDuration = difficulty.moveDuration,
                       !.isMoving = FALSE,
                       !.lastInputTime = Long]
  IN startGameLoop(showScreen(startTimer(s2), "gameHUD"))

selectDifficulty(s, difficulty, seed) ==
  startGame([s EXCEPT !.selectedDifficulty = difficulty], seed)

\* sqrt(dx^2 + dy^2) < r, for r >= 0
Closer(dx, dy, r) ==
  /\ dx < r /\ -dx < r /\ dy < r /\ -dy < r
  /\ dx * dx + dy * dy < r * r

\* mutant: the margin is one and a half times the radius
canMoveTo_wideMargin(s, x, y) ==
  LET margin == s.player.radius + s.player.radius \div 2
      size   == cellSize * PosDen
  IN IF \/ x - margin < 0 \/ x + margin > s.canvas.width * PosDen
        \/ y - margin < 0 \/ y + margin > s.canvas.height * PosDen
     THEN FALSE
     ELSE LET cellX == x \div size
              cellY == y \div size
          IN \A dx \in -1..1 : \A dy \in -1..1 :
               LET checkX == cellX + dx
                   checkY == cellY + dy
                   wallLeft   == checkX * size
                   wallRight  == wallLeft + size
                   wallTop    == checkY * size
                   wallBottom == wallTop + size
                   closestX == Max(wallLeft, Min(x, wallRight))
                   closestY == Max(wallTop, Min(y, wallBottom))
               IN (s.maze # NullMaze /\ isWall(s.maze, checkX, checkY))
                    => ~Closer(x - closestX, y - closestY, margin)

canMoveTo_narrow(s, x, y) ==
  LET margin == s.player.radius
      size   == cellSize * PosDen
  IN IF \/ x - margin < 0 \/ x + margin > s.canvas.width * PosDen
        \/ y - margin < 0 \/ y + margin > s.canvas.height * PosDen
     THEN FALSE
     ELSE LET cellX == x \div size
              cellY == y \div size
          IN \A dx \in 0..1 : \A dy \in -1..1 :
               LET checkX == cellX + dx
                   checkY == cellY + dy
                   wallLeft   == checkX * size
                   wallRight  == wallLeft + size
                   wallTop    == checkY * size
                   wallBottom == wallTop + size
                   closestX == Max(wallLeft, Min(x, wallRight))
                   closestY == Max(wallTop, Min(y, wallBottom))
               IN (s.maze # NullMaze /\ isWall(s.maze, checkX, checkY))
                    => ~Closer(x - closestX, y - closestY, margin)

canMoveTo(s, x, y) ==
  LET margin == s.player.radius
      size   == cellSize * PosDen
  IN IF \/ x - margin < 0 \/ x + margin > s.canvas.width * PosDen
        \/ y - margin < 0 \/ y + margin > s.canvas.height * PosDen
     THEN FALSE
     ELSE LET cellX == x \div size
              cellY == y \div size
          IN \A dx \in -1..1 : \A dy \in -1..1 :
               LET checkX == cellX + dx
                   checkY == cellY + dy
                   wallLeft   == checkX * size
                   wallRight  == wallLeft + size
                   wallTop    == checkY * size
                   wallBottom == wallTop + size
                   closestX == Max(wallLeft, Min(x, wallRight))
                   closestY == Max(wallTop, Min(y, wallBottom))
               IN (s.maze # NullMaze /\ isWall(s.maze, checkX, checkY))
                    => ~Closer(x - closestX, y - closestY, margin)

\* start + (target - start) * easeProgress after elapsed milliseconds
Interpolate(start, target, elapsed, duration) ==
  IF 2 * elapsed < duration
  THEN start + ((target - start) * 2 * elapsed * elapsed) \div (duration * duration)
  ELSE target - ((target - start) * 2 * (duration - elapsed) * (duration - elapsed))
                  \div (duration * duration)

\* mutant: left is tried before down
acceptInput_leftFirst(s, pressed) ==
  IF 0 - s.lastInputTime < inputDelay /\ s.isMoving
  THEN s
  ELSE LET size == cellSize * PosDen
           target ==
             IF "up" \in pressed THEN [x |-> s.player.x, y |-> s.player.y - size]
             ELSE IF "left" \in pressed THEN [x |-> s.player.x - size, y |-> s.player.y]
             ELSE IF "down" \in pressed THEN [x |-> s.player.x, y |-> s.player.y + size]
             ELSE IF "right" \in pressed THEN [x |-> s.player.x + size, y |-> s.player.y]
             ELSE [x |-> s.player.x, y |-> s.player.y]
           hasNewMove == pressed # {} /\ canMoveTo(s, target.x, target.y)
       IN IF hasNewMove
          THEN [s EXCEPT !.moveStartPos = [x |-> s.player.x, y |-> s.player.y],
                         !.moveTargetPos = target,
                         !.moveStartTime = 0,
                         !.lastInputTime = 0,
                         !.isMoving = TRUE]
          ELSE s

\* mutant: the destination is not put to canMoveTo
acceptInputEffects_unchecked(s, pressed) ==
  IF 0 - s.lastInputTime < inputDelay /\ s.isMoving
  THEN [session |-> s, sounds |-> << >>]
  ELSE LET size == cellSize * PosDen
           target ==
             IF "up" \in pressed THEN [x |-> s.player.x, y |-> s.player.y - size]
             ELSE IF "down" \in pressed THEN [x |-> s.player.x, y |-> s.player.y + size]
             ELSE IF "left" \in pressed THEN [x |-> s.player.x - size, y |-> s.player.y]
             ELSE IF "right" \in pressed THEN [x |-> s.player.x + size, y |-> s.player.y]
             ELSE [x |-> s.player.x, y |-> s.player.y]
           hasNewMove == pressed # {}
       IN IF hasNewMove
          THEN [session |-> [s EXCEPT !.moveStartPos = [x |-> s.player.x, y |-> s.player.y],
                                      !.moveTargetPos = target,
                                      !.moveStartTime = 0,
                                      !.lastInputTime = 0,
                                      !.isMoving = TRUE],
                sounds |-> << "hit" >>]
          ELSE [session |-> s, sounds |-> << >>]

\* mutant: a refused attempt is still recorded as the latest input
acceptInputEffects_stampRefused(s, pressed) ==
  IF 0 - s.lastInputTime < inputDelay /\ s.isMoving
  THEN [session |-> s, sounds |-> << >>]
  ELSE LET size == cellSize * PosDen
           target ==
             IF "up" \in pressed THEN [x |-> s.player.x, y |-> s.player.y - size]
             ELSE IF "down" \in pressed THEN [x |-> s.player.x, y |-> s.player.y + size]
             ELSE IF "left" \in pressed THEN [x |-> s.player.x - size, y |-> s.player.y]
             ELSE IF "right" \in pressed THEN [x |-> s.player.x + size, y |-> s.player.y]
             ELSE [x |-> s.player.x, y |-> s.player.y]
           hasNewMove == pressed # {} /\ canMoveTo(s, target.x, target.y)
       IN IF hasNewMove
          THEN [session |-> [s EXCEPT !.moveStartPos = [x |-> s.player.x, y |-> s.player.y],
                                      !.moveTargetPos = target,
                                      !.moveStartTime = 0,
                                      !.lastInputTime = 0,
                                      !.isMoving = TRUE],
                sounds |-> << "hit" >>]
          ELSE [session |-> IF pressed # {} THEN [s EXCEPT !.lastInputTime = 0] ELSE s,
                sounds |-> << >>]

\* the rest of updatePlayer once no move is under way, as the session it leaves
\* and the sounds it asks the audio manager to play; the direction tried, if
\* any, is the first one pressed of up, down, left, right
acceptInputEffects(s, pressed) ==
  IF 0 - s.lastInputTime < inputDelay /\ s.isMoving
  THEN [session |-> s, sounds |-> << >>]
  ELSE LET size == cellSize * PosDen
           target ==
             IF "up" \in pressed THEN [x |-> s.player.x, y |-> s.player.y - size]
             ELSE IF "down" \in pressed THEN [x |-> s.player.x, y |-> s.player.y + size]
             ELSE IF "left" \in pressed THEN [x |-> s.player.x - size, y |-> s.player.y]
             ELSE IF "right" \in pressed THEN [x |-> s.player.x + size, y |-> s.player.y]
             ELSE [x |-> s.player.x, y |-> s.player.y]
           hasNewMove == pressed # {} /\ canMoveTo(s, target.x, target.y)
       IN IF hasNewMove
          THEN [session |-> [s EXCEPT !.moveStartPos = [x |-> s.player.x, y |-> s.player.y],
                                      !.moveTargetPos = target,
                                      !.moveStartTime = 0,
                                      !.lastInputTime = 0,
                                      !.isMoving = TRUE],
                sounds |-> << "hit" >>]
          ELSE [session |-> s, sounds |-> << >>]

\* the session updatePlayer leaves once no move is under way
acceptInput(s, pressed) ==
  acceptInputEffects(s, pressed).session

\* mutant: a complete move ends where the frame before left the player
interpolateMove_noSnap(s) ==
  LET elapsed == 0 - s.moveStartTime
  IN IF elapsed >= s.moveDuration
     THEN [s EXCEPT !.isMoving = FALSE]
     ELSE [s EXCEPT !.player.x = Interpolate(s.moveStartPos.x, s.moveTargetPos.x,
                                             elapsed, s.moveDuration),
                    !.player.y = Interpolate(s.moveStartPos.y, s.moveTargetPos.y,
                                             elapsed, s.moveDuration)]

\* mutant: the move is complete only when progress has passed 1
interpolateMove_late(s) ==
  LET elapsed == 0 - s.moveStartTime
  IN IF elapsed > s.moveDuration
     THEN [s EXCEPT !.player.x = s.moveTargetPos.x,
                    !.player.y = s.moveTargetPos.y,
                    !.isMoving = FALSE]
     ELSE [s EXCEPT !.player.x = Interpolate(s.moveStartPos.x, s.moveTargetPos.x,
                                             Min(elapsed, s.moveDuration), s.moveDuration),
                    !.player.y = Interpolate(s.moveStartPos.y, s.moveTargetPos.y,
                                             Min(elapsed, s.moveDuration), s.moveDuration)]

\* the player's position while a move is under way
interpolateMove(s) ==
  LET elapsed == 0 - s.moveStartTime
  IN IF elapsed >= s.moveDuration
     THEN [s EXCEPT !.player.x = s.moveTargetPos.x,
                    !.player.y = s.moveTargetPos.y,
                    !.isMoving = FALSE]
     ELSE [s EXCEPT !.player.x = Interpolate(s.moveStartPos.x, s.moveTargetPos.x,
                                             elapsed, s.moveDuration),
                    !.player.y = Interpolate(s.moveStartPos.y, s.moveTargetPos.y,
                                             elapsed, s.moveDuration)]

updatePlayer_noReturn(s, pressed) ==
  IF s.isMoving
  THEN acceptInput(interpolateMove(s), pressed)
  ELSE acceptInput(s, pressed)

updatePlayer(s, pressed) ==
  IF s.isMoving THEN interpolateMove(s) ELSE acceptInput(s, pressed)

checkWinCondition_inclusive(s) ==
  IF s.maze = NullMaze THEN s
  ELSE LET exitCenterX == (s.maze.exitPos.x * cellSize + cellSize \div 2) * PosDen
           exitCenterY == (s.maze.exitPos.y * cellSize + cellSize \div 2) * PosDen
           half == (cellSize * PosDen) \div 2
       IN IF Closer(s.player.x - exitCenterX, s.player.y - exitCenterY, half + 1)
          THEN endGame(s, TRUE)
          ELSE s

checkWinCondition(s) ==
  IF s.maze = NullMaze THEN s
  ELSE LET exitCenterX == (s.maze.exitPos.x * cellSize + cellSize \div 2) * PosDen
           exitCenterY == (s.maze.exitPos.y * cellSize + cellSize \div 2) * PosDen
       IN IF Closer(s.player.x - exitCenterX, s.player.y - exitCenterY,
                    (cellSize * PosDen) \div 2)
          THEN endGame(s, TRUE)
          ELSE s

update(s, pressed) ==
  IF s.gameState # "playing" THEN s
  ELSE checkWinCondition(updatePlayer(s, pressed))

\* render() paints the game canvas from this.maze and this.player; drawn keeps
\* what it was painted from, and renderFrame gives the paints themselves
render(s) ==
  IF s.gameState # "playing" THEN s
  ELSE [s EXCEPT !.drawn = [maze |-> s.maze, x |-> s.player.x, y |-> s.player.y]]

gameLoop_renderFirst(s, pressed) ==
  IF s.gameState # "playing" THEN [s EXCEPT !.rafPending = @ - 1]
  ELSE IF 0 - s.lastFrameTime >= frameInterval
       THEN [update(render(s), pressed) EXCEPT !.lastFrameTime = 0]
       ELSE s

\* mutant: the callback does not look at gameState
gameLoop_noGuard(s, pressed) ==
  IF 0 - s.lastFrameTime >= frameInterval
  THEN [render(update(s, pressed)) EXCEPT !.lastFrameTime = 0]
  ELSE s

\* one call of the gameLoop callback
gameLoop(s, pressed) ==
  IF s.gameState # "playing" THEN [s EXCEPT !.rafPending = @ - 1]
  ELSE IF 0 - s.lastFrameTime >= frameInterval
       THEN [render(update(s, pressed)) EXCEPT !.lastFrameTime = 0]
       ELSE s

\* the object after the constructor and init()
ShadowMazeGame(window) ==
  resizeCanvas(
    [ gameState |-> "start", gameTime |-> 60, gameTimer |-> 0,
      selectedDifficulty |-> "medium",
      isMoving |-> FALSE, moveStartTime |-> Long, moveDuration |-> 120,
      moveStartPos |-> [x |-> 0, y |-> 0], moveTargetPos |-> [x |-> 0, y |-> 0],
      lastInputTime |-> Long,
      maze |-> NullMaze, player |-> NullPlayer,
      mazeWidth |-> 0, mazeHeight |-> 0,
      lastFrameTime |-> -FrameHorizon,
      canvas |-> [width |-> 0, height |-> 0],
      window |-> window, intervals |-> {}, rafPending |-> 0,
      screen |-> "startScreen",
      drawn |-> Blank, uncaught |-> FALSE ])

(***************************************************************************)
(* GameControls                                                            *)
(***************************************************************************)
keyMappings ==
  [ KeyW |-> "up", ArrowUp |-> "up", KeyS |-> "down", ArrowDown |-> "down",
    KeyA |-> "left", ArrowLeft |-> "left", KeyD |-> "right", ArrowRight |-> "right" ]

\* the key codes whose events are tried; Space is mapped to nothing
EventCodes == { "KeyW", "ArrowUp", "KeyS", "ArrowLeft", "Space" }

\* obj[name] read as a condition: false when the object has no such property
Truthy(obj, name) == name \in DOMAIN obj /\ obj[name]
\* obj[name] = value
SetProperty(obj, name, value) ==
  [k \in DOMAIN obj \cup { name } |-> IF k = name THEN value ELSE obj[k]]

\* the object after the constructor; downKeys and downButtons are not the
\* program's: they keep what the devices have reported, the key codes that
\* went down and have not come up or lost the focus since, and the direction
\* buttons whose last touch or mouse event was a press
GameControls ==
  [ keys |-> [k \in {} |-> TRUE],
    touchControls |-> [up |-> FALSE, down |-> FALSE, left |-> FALSE, right |-> FALSE],
    downKeys |-> {}, downButtons |-> {} ]

keydown(c, code) ==
  IF code \in DOMAIN keyMappings
  THEN [c EXCEPT !.keys = SetProperty(@, code, TRUE)]
  ELSE c

keyup_byAction(c, code) ==
  IF code \in DOMAIN keyMappings
  THEN [c EXCEPT !.keys = [k \in DOMAIN @ \cup { code } |->
                             IF keyMappings[k] = keyMappings[code] THEN FALSE ELSE @[k]]]
  ELSE c

keyup(c, code) ==
  IF code \in DOMAIN keyMappings
  THEN [c EXCEPT !.keys = SetProperty(@, code, FALSE)]
  ELSE c

blur(c) == [c EXCEPT !.keys = [k \in {} |-> TRUE]]

\* touchstart and mousedown on the button of a direction
pressButton(c, direction) == [c EXCEPT !.touchControls[direction] = TRUE]
\* touchend, mouseup and mouseleave
releaseButton(c, direction) == [c EXCEPT !.touchControls[direction] = FALSE]

isPressed(c, keyOrDirection) ==
  IF Truthy(c.keys, keyOrDirection) THEN TRUE
  ELSE LET mappedKeys == { key \in DOMAIN keyMappings : keyMappings[key] = keyOrDirection }
       IN IF \E key \in mappedKeys : Truthy(c.keys, key) THEN TRUE
          ELSE Truthy(c.touchControls, keyOrDirection)

(***************************************************************************)
(* LightingSystem, and the part of render() that hands the maze to it      *)
(***************************************************************************)
\* intensities are kept in units of 1/IntensityDen
IntensityDen == 1000

\* Math.sqrt, rounded down to a whole number of length units
RECURSIVE SqrtBetween(_, _, _)
SqrtBetween(n, lo, hi) ==
  IF lo >= hi THEN lo
  ELSE LET mid == (lo + hi + 1) \div 2
       IN IF mid * mid <= n THEN SqrtBetween(n, mid, hi) ELSE SqrtBetween(n, lo, mid - 1)
Sqrt(n) == SqrtBetween(n, 0, 46340)

\* the object after the constructor and setup(), with the arguments of
\* renderWithLighting: the context of the game canvas (the paints on it since it
\* was last covered), the maze and the player
LightingSystem ==
  [ shadowCanvas |-> {}, lightCanvas |-> {},
    ctx |-> EmptyBag, maze |-> NullMaze, player |-> NullPlayer ]

Paint(c, what) == c (+) SetToBag({ what })

\* mutant: cellsToCheck without its margin of two cells
CandidateCells_noMargin(l) ==
  LET size == cellSize * PosDen
      playerGridX == l.player.x \div size
      playerGridY == l.player.y \div size
      ceil == (l.player.lightRadius + cellSize - 1) \div cellSize
      cellsToCheck == ceil
      startX == Max(0, playerGridX - cellsToCheck)
      endX   == Min(l.maze.width, playerGridX + cellsToCheck)
      startY == Max(0, playerGridY - cellsToCheck)
      endY   == Min(l.maze.height, playerGridY + cellsToCheck)
  IN (startX..(endX - 1)) \X (startY..(endY - 1))

\* mutant: the loops run up to and including playerGrid + cellsToCheck
CandidateCells_throughEnd(l) ==
  LET size == cellSize * PosDen
      playerGridX == l.player.x \div size
      playerGridY == l.player.y \div size
      ceil == (l.player.lightRadius + cellSize - 1) \div cellSize
      cellsToCheck == ceil + 2
      startX == Max(0, playerGridX - cellsToCheck)
      endX   == Min(l.maze.width, playerGridX + cellsToCheck + 1)
      startY == Max(0, playerGridY - cellsToCheck)
      endY   == Min(l.maze.height, playerGridY + cellsToCheck + 1)
  IN (startX..(endX - 1)) \X (startY..(endY - 1))

\* the cells looked at: startX..endX-1 by startY..endY-1
CandidateCells(l) ==
  LET size == cellSize * PosDen
      playerGridX == l.player.x \div size
      playerGridY == l.player.y \div size
      ceil == (l.player.lightRadius + cellSize - 1) \div cellSize
      cellsToCheck == ceil + 2
      startX == Max(0, playerGridX - cellsToCheck)
      endX   == Min(l.maze.width, playerGridX + cellsToCheck)
      startY == Max(0, playerGridY - cellsToCheck)
      endY   == Min(l.maze.height, playerGridY + cellsToCheck)
  IN (startX..(endX - 1)) \X (startY..(endY - 1))

clearCanvases(l) == [l EXCEPT !.shadowCanvas = {}, !.lightCanvas = {}]

renderMazeToShadowCanvas(l) ==
  [l EXCEPT !.shadowCanvas =
     @ \cup { c \in CandidateCells(l) : isWall(l.maze, c[1], c[2]) }]

\* the rays start at the player and stop at the shadow canvas's walls: the mask
\* is kept as what it is cast from
createLightMask(l) ==
  [l EXCEPT !.lightCanvas =
     { [x |-> l.player.x, y |-> l.player.y, radius |-> l.player.lightRadius,
        walls |-> l.shadowCanvas] }]

renderCircularLight(l) ==
  [l EXCEPT !.ctx = Paint(@, [kind |-> "light", x |-> l.player.x, y |-> l.player.y,
                              intensity |-> l.player.lightRadius])]

\* Math.sqrt((player.x - cellCenterX) ** 2 + (player.y - cellCenterY) ** 2)
distance(l, c) ==
  LET cellCenterX == (c[1] * cellSize + cellSize \div 2) * PosDen
      cellCenterY == (c[2] * cellSize + cellSize \div 2) * PosDen
  IN Sqrt((l.player.x - cellCenterX) * (l.player.x - cellCenterX)
          + (l.player.y - cellCenterY) * (l.player.y - cellCenterY))

intensity_rising(l, d) ==
  Max(0, (d * IntensityDen) \div (l.player.lightRadius * PosDen))

\* Math.max(0, 1 - distance / player.lightRadius)
intensity(l, d) ==
  Max(0, IntensityDen - (d * IntensityDen) \div (l.player.lightRadius * PosDen))

renderMazeElements_inclusive(l) ==
  LET lit == { c \in CandidateCells(l) : distance(l, c) <= l.player.lightRadius * PosDen }
  IN [l EXCEPT !.ctx = @ (+) SetToBag(
        { [kind |-> IF isWall(l.maze, c[1], c[2]) THEN "wall" ELSE "path",
           x |-> c[1], y |-> c[2], intensity |-> intensity(l, distance(l, c))] : c \in lit })]

renderMazeElements(l) ==
  LET lit == { c \in CandidateCells(l) : distance(l, c) < l.player.lightRadius * PosDen }
  IN [l EXCEPT !.ctx = @ (+) SetToBag(
        { [kind |-> IF isWall(l.maze, c[1], c[2]) THEN "wall" ELSE "path",
           x |-> c[1], y |-> c[2], intensity |-> intensity(l, distance(l, c))] : c \in lit })]

renderVisibleMaze(l) == renderMazeElements(renderCircularLight(l))

renderWithLighting(l) ==
  renderVisibleMaze(createLightMask(renderMazeToShadowCanvas(clearCanvases(l))))

\* ctx.fillRect over the whole canvas
fillCanvas(l) == [l EXCEPT !.ctx = EmptyBag]

renderPlayer(l) ==
  [l EXCEPT !.ctx = Paint(@, [kind |-> "player", x |-> l.player.x, y |-> l.player.y,
                              intensity |-> IntensityDen])]

\* the glow is painted when the exit is within the light; its pulse follows the
\* clock and is not kept
renderExitGlow(l) ==
  IF l.maze = NullMaze THEN l
  ELSE IF distance(l, << l.maze.exitPos.x, l.maze.exitPos.y >>) < l.player.lightRadius * PosDen
  THEN [l EXCEPT !.ctx = Paint(@, [kind |-> "exit", x |-> l.maze.exitPos.x,
                                   y |-> l.maze.exitPos.y, intensity |-> IntensityDen])]
  ELSE l

renderFrame_noClear(l) == renderExitGlow(renderPlayer(renderWithLighting(l)))

\* render() while playing, on the canvases
renderFrame(l) == renderExitGlow(renderPlayer(renderWithLighting(fillCanvas(l))))

(***************************************************************************)
(* The generator on its own                                                *)
(***************************************************************************)
Odd(lo, hi) == { n \in lo..hi : n % 2 = 1 }
FreeDims == Odd(FreeMinSize, FreeMaxW) \X Odd(FreeMinSize, FreeMaxH)
SeededDims == { <<5, 11>>, <<7, 9>>, <<15, 11>> }
Seeds == { 1000 * s : s \in 1..NumSeeds }

NoProbe == [x |-> 0, y |-> 0, ok |-> FALSE]
IdleGame == ShadowMazeGame(<<400, 400>>)
IdleGen == MazeGenerator(3, 3, 0, FALSE)

InitMaze ==
  /\ gen \in { MazeGenerator(d[1], d[2], Free, TRUE) : d \in FreeDims }
            \cup { MazeGenerator(d[1], d[2], s, TRUE) : d \in SeededDims, s \in Seeds }
  /\ game = IdleGame
  /\ probe = NoProbe
  /\ controls = GameControls
  /\ light = LightingSystem

Generate ==
  /\ gen.pc = "constructed"
  /\ gen' \in generateSteps(gen)
  /\ UNCHANGED << game, probe, controls, light >>

CarveIter ==
  /\ gen.pc = "carve" /\ gen.stack[Len(gen.stack)].rest # << >>
  /\ gen' \in generateSteps(gen)
  /\ UNCHANGED << game, probe, controls, light >>

CarveReturn ==
  /\ gen.pc = "carve" /\ gen.stack[Len(gen.stack)].rest = << >>
  /\ gen' \in generateSteps(gen)
  /\ UNCHANGED << game, probe, controls, light >>

LoopTrial ==
  /\ gen.pc = "loops" /\ gen.i < pathsToCreate(gen)
  /\ gen' \in generateSteps(gen)
  /\ UNCHANGED << game, probe, controls, light >>

GenerateDone ==
  /\ gen.pc = "loops" /\ gen.i >= pathsToCreate(gen)
  /\ gen' \in generateSteps(gen)
  /\ UNCHANGED << game, probe, controls, light >>

NextMaze == Generate \/ CarveIter \/ CarveReturn \/ LoopTrial \/ GenerateDone

vars == << gen, game, probe, controls, light >>

SpecMaze == InitMaze /\ [][NextMaze]_vars

(***************************************************************************)
(* The game session: clicks, timer and frame callbacks, the clock          *)
(***************************************************************************)
InitGame ==
  /\ game \in { ShadowMazeGame(w) : w \in WindowSizes }
  /\ gen = IdleGen
  /\ probe = NoProbe
  /\ controls = GameControls
  /\ light = LightingSystem

ClickStart ==
  /\ game.screen = "startScreen"
  /\ game' = showScreen(game, "difficultyScreen")
  /\ UNCHANGED << gen, probe, controls, light >>

ClickBack ==
  /\ game.screen = "difficultyScreen"
  /\ game' = showScreen(game, "startScreen")
  /\ UNCHANGED << gen, probe, controls, light >>

ClickDifficulty ==
  /\ game.screen = "difficultyScreen"
  /\ game.rafPending < MaxPending
  /\ \E difficulty \in PlayedTiers : \E seed \in GameSeeds :
       game' = selectDifficulty(game, difficulty, seed)
  /\ UNCHANGED << gen, probe, controls, light >>

ClickPlayAgain ==
  /\ game.screen = "victoryScreen"
  /\ game' = showScreen(game, "difficultyScreen")
  /\ UNCHANGED << gen, probe, controls, light >>

ClickTryAgain ==
  /\ game.screen = "gameOverScreen"
  /\ game' = showScreen(game, "difficultyScreen")
  /\ UNCHANGED << gen, probe, controls, light >>

TimerFire ==
  /\ \E id \in game.intervals : game' = timerCallback(game)
  /\ UNCHANGED << gen, probe, controls, light >>

Frame ==
  /\ game.rafPending > 0
  /\ game' \in { gameLoop(game, pressed) : pressed \in PressedSets }
  /\ UNCHANGED << gen, probe, controls, light >>

\* the resize listener, the window taking another of the sizes tried
Resize ==
  /\ \E w \in WindowSizes : game' = resizeCanvas([game EXCEPT !.window = w])
  /\ UNCHANGED << gen, probe, controls, light >>

Tick ==
  /\ \E dt \in ClockSteps : game' = Elapse(game, dt)
  /\ UNCHANGED << gen, probe, controls, light >>

NextGame ==
  \/ ClickStart \/ ClickBack \/ ClickDifficulty \/ ClickPlayAgain \/ ClickTryAgain
  \/ TimerFire \/ Frame \/ Tick

SpecGame == InitGame /\ [][NextGame]_vars

(***************************************************************************)
(* The last seconds of a game, with the window being resized: the frame    *)
(* callbacks were held back (a hidden tab) while the timer went on firing  *)
(***************************************************************************)
\* the timer callback run until no more than left seconds remain
RECURSIVE TimerCallbacks(_, _)
TimerCallbacks(s, left) ==
  IF s.gameTime <= left THEN s ELSE TimerCallbacks(timerCallback(s), left)

InitEndgame ==
  /\ game \in { TimerCallbacks(
                   selectDifficulty(showScreen(ShadowMazeGame(w), "difficultyScreen"),
                                    difficulty, seed),
                   LateSeconds) :
                 w \in WindowSizes, difficulty \in PlayedTiers, seed \in GameSeeds }
  /\ gen = IdleGen
  /\ probe = NoProbe
  /\ controls = GameControls
  /\ light = LightingSystem

NextEndgame ==
  \/ ClickStart \/ ClickBack \/ ClickPlayAgain \/ ClickTryAgain
  \/ TimerFire \/ Frame \/ Tick \/ Resize

SpecEndgame == InitEndgame /\ [][NextEndgame]_vars

\* the interval set by startTimer fires every second for as long as it is
\* not cleared
SpecEndgameFair == SpecEndgame /\ WF_vars(TimerFire)

(***************************************************************************)
(* startGame on its own: difficulties chosen on the difficulty screen,     *)
(* first thing or after a game that was played for some frames and lost    *)
(***************************************************************************)
\* the identifiers handed to selectDifficulty: the table's and one that is not
\* in the table
DifficultyIds == Tiers \cup { "nightmare" }
\* the pseudo-random streams of the mazes of the starts
StartSeeds == { 1000, 1001 }

\* n frames dt milliseconds apart, with the same keys held at each
RECURSIVE Play(_, _, _, _)
Play(s, pressed, dt, n) ==
  IF n = 0 THEN s ELSE Play(gameLoop(Elapse(s, dt), pressed), pressed, dt, n - 1)

\* the timer runs out, the pending frame callback returns, Try Again is clicked
LoseAndRetry(s) ==
  showScreen(gameLoop(TimerCallbacks(s, 0), { }), "difficultyScreen")

PriorSessions ==
  LET fresh == { showScreen(ShadowMazeGame(w), "difficultyScreen") : w \in WindowSizes }
      played == { Play(selectDifficulty(s, id, seed), { key }, dt, n) :
                    s \in fresh, id \in Tiers, seed \in GameSeeds,
                    key \in Keys, dt \in ClockSteps, n \in 0..MaxPriorFrames }
  IN fresh \cup { LoseAndRetry(s) : s \in played }

InitStart ==
  /\ game \in PriorSessions
  /\ gen = IdleGen
  /\ probe = NoProbe
  /\ controls = GameControls
  /\ light = LightingSystem

SelectDifficulty ==
  /\ game.screen = "difficultyScreen"
  /\ \E id \in DifficultyIds : \E seed \in StartSeeds :
       game' = selectDifficulty(game, id, seed)
  /\ UNCHANGED << gen, probe, controls, light >>

NextStart == SelectDifficulty

SpecStart == InitStart /\ [][NextStart]_vars

(***************************************************************************)
(* The size of the maze: windows of many sizes, resized before and after   *)
(* the one start of a game on any tier                                     *)
(***************************************************************************)
\* from no window at all to windows beyond the largest canvas on both axes
SizingWindows ==
  { << 220 * i, 140 * j >> : i \in 0..MaxWindowSteps, j \in 0..MaxWindowSteps }

InitSizing ==
  /\ game \in { showScreen(ShadowMazeGame(w), "difficultyScreen") : w \in SizingWindows }
  /\ gen = IdleGen
  /\ probe = NoProbe
  /\ controls = GameControls
  /\ light = LightingSystem

SizingStart ==
  /\ game.screen = "difficultyScreen"
  /\ \E difficulty \in Tiers : \E seed \in GameSeeds :
       game' = selectDifficulty(game, difficulty, seed)
  /\ UNCHANGED << gen, probe, controls, light >>

SizingResize ==
  /\ \E w \in SizingWindows : game' = resizeCanvas([game EXCEPT !.window = w])
  /\ UNCHANGED << gen, probe, controls, light >>

NextSizing == SizingStart \/ SizingResize

SpecSizing == InitSizing /\ [][NextSizing]_vars

(***************************************************************************)
(* canMoveTo on its own: a game just started, asked about pixel positions  *)
(***************************************************************************)
\* half the side, in pixels, of the two squares of positions asked about
ProbeSpan == 32

\* the centre, in pixels, of a cell
CellCentre(pos) ==
  [x |-> pos.x * cellSize + cellSize \div 2, y |-> pos.y * cellSize + cellSize \div 2]
\* whole-pixel positions around the start cell and around the exit cell
ProbePoints(s) ==
  UNION { ((c.x - ProbeSpan)..(c.x + ProbeSpan)) \X ((c.y - ProbeSpan)..(c.y + ProbeSpan)) :
          c \in { CellCentre(s.maze.startPos), CellCentre(s.maze.exitPos) } }

InitProbe ==
  /\ game \in { selectDifficulty(ShadowMazeGame(w), d, seed) :
                 w \in WindowSizes, d \in PlayedTiers, seed \in GameSeeds }
  /\ gen = IdleGen
  /\ probe = NoProbe
  /\ controls = GameControls
  /\ light = LightingSystem

\* one call of canMoveTo
Probe ==
  /\ probe = NoProbe
  /\ \E p \in ProbePoints(game) :
       probe' = [x |-> p[1], y |-> p[2],
                 ok |-> canMoveTo(game, p[1] * PosDen, p[2] * PosDen)]
  /\ UNCHANGED << gen, game, controls, light >>

NextProbe == Probe

SpecProbe == InitProbe /\ [][NextProbe]_vars

(***************************************************************************)
(* GameControls on its own: the events of the keyboard, the focus, the     *)
(* touch buttons and the mouse on them                                     *)
(***************************************************************************)
InitControls ==
  /\ gen = IdleGen
  /\ game = IdleGame
  /\ probe = NoProbe
  /\ controls = GameControls
  /\ light = LightingSystem

KeyDown ==
  /\ \E code \in EventCodes :
       controls' = [keydown(controls, code) EXCEPT !.downKeys = @ \cup { code }]
  /\ UNCHANGED << gen, game, probe, light >>

KeyUp ==
  /\ \E code \in EventCodes :
       controls' = [keyup(controls, code) EXCEPT !.downKeys = @ \ { code }]
  /\ UNCHANGED << gen, game, probe, light >>

Blur ==
  /\ controls' = [blur(controls) EXCEPT !.downKeys = {}]
  /\ UNCHANGED << gen, game, probe, light >>

TouchStart ==
  /\ \E direction \in Keys :
       controls' = [pressButton(controls, direction) EXCEPT !.downButtons = @ \cup { direction }]
  /\ UNCHANGED << gen, game, probe, light >>

TouchEnd ==
  /\ \E direction \in Keys :
       controls' = [releaseButton(controls, direction) EXCEPT !.downButtons = @ \ { direction }]
  /\ UNCHANGED << gen, game, probe, light >>

MouseDown ==
  /\ \E direction \in Keys :
       controls' = [pressButton(controls, direction) EXCEPT !.downButtons = @ \cup { direction }]
  /\ UNCHANGED << gen, game, probe, light >>

\* mouseup and mouseleave over a button
MouseUp ==
  /\ \E direction \in Keys :
       controls' = [releaseButton(controls, direction) EXCEPT !.downButtons = @ \ { direction }]
  /\ UNCHANGED << gen, game, probe, light >>

NextControls ==
  KeyDown \/ KeyUp \/ Blur \/ TouchStart \/ TouchEnd \/ MouseDown \/ MouseUp

SpecControls == InitControls /\ [][NextControls]_vars

(***************************************************************************)
(* The lighting on its own: render() with the player at rest on a Path     *)
(* cell, or one clock step into a move to the next one                     *)
(***************************************************************************)
\* the positions of the player in a game just started, had it walked
PlayerPositions(s) ==
  LET paths == { c \in (0..(s.maze.width - 1)) \X (0..(s.maze.height - 1)) :
                   isPath(s.maze, c[1], c[2]) }
      centre(c) == [x |-> (c[1] * cellSize + cellSize \div 2) * PosDen,
                    y |-> (c[2] * cellSize + cellSize \div 2) * PosDen]
      steps == { ab \in paths \X paths :
                   \E k \in 1..4 : ab[2] = << ab[1][1] + Directions[k].x,
                                              ab[1][2] + Directions[k].y >> }
  IN { centre(c) : c \in paths }
     \cup { [x |-> Interpolate(centre(ab[1]).x, centre(ab[2]).x, dt, s.moveDuration),
             y |-> Interpolate(centre(ab[1]).y, centre(ab[2]).y, dt, s.moveDuration)] :
            ab \in steps, dt \in ClockSteps }

InitLight ==
  /\ gen = IdleGen
  /\ game = IdleGame
  /\ probe = NoProbe
  /\ controls = GameControls
  /\ \E d \in Tiers : \E seed \in GameSeeds :
       LET s == selectDifficulty(IdleGame, d, seed)
       IN \E p \in PlayerPositions(s) :
            light = [LightingSystem EXCEPT !.maze = s.maze,
                                           !.player = [s.player EXCEPT !.x = p.x, !.y = p.y]]

RenderFrame ==
  /\ light' = renderFrame(light)
  /\ UNCHANGED << gen, game, probe, controls >>

NextLight == RenderFrame

SpecLight == InitLight /\ [][NextLight]_vars

(***************************************************************************)
(* Properties of the generated maze                                        *)
(***************************************************************************)
Cells(g) == (0..(g.width - 1)) \X (0..(g.height - 1))
PathCells(g) == { c \in Cells(g) : g.grid[c[2]][c[1]] = Path }
Neighbours(c) == { <<c[1] + Directions[k].x, c[2] + Directions[k].y>> : k \in 1..4 }

RECURSIVE FloodFill(_, _, _)
FloodFill(P, seen, frontier) ==
  IF frontier = {} THEN seen
  ELSE LET new == ((UNION { Neighbours(c) : c \in frontier }) \cap P) \ seen
       IN FloodFill(P, seen \cup new, new)

\* the Path cells reached from the start cell by 4-connected Path steps
ReachableFromStart(g) ==
  IF g.grid[g.startPos.y][g.startPos.x] = Path
  THEN FloodFill(PathCells(g), { <<g.startPos.x, g.startPos.y>> }, { <<g.startPos.x, g.startPos.y>> })
  ELSE {}

Rooms(g) == ((g.width - 1) \div 2) * ((g.height - 1) \div 2)

\* C1: in every generated maze each Path cell is reachable from the start
\* cell (1,1) through 4-connected Path steps.
C1_Connectivity ==
  gen.pc = "done" => ReachableFromStart(gen) = PathCells(gen)

\* a finished maze of valid size whose loop-adding pass opened a wall
C1_Witness ==
  /\ gen.pc = "done" /\ gen.width >= 5 /\ gen.height >= 5
  /\ Cardinality(PathCells(gen)) > 2 * Rooms(gen) - 1

\* C2: every cell of the outer border is Wall, during and after generation.
C2_BorderWalls ==
  \A c \in Cells(gen) :
    (c[1] \in {0, gen.width - 1} \/ c[2] \in {0, gen.height - 1})
      => gen.grid[c[2]][c[1]] = Wall

\* a finished maze in which carving, the forced cells and the loop pass all acted
C2_Witness ==
  /\ gen.pc = "done" /\ gen.i > 0
  /\ Cardinality(PathCells(gen)) > 2 * Rooms(gen) - 1

\* C3: after generate() the start is (1,1), the exit is (width-2, height-2),
\* both are Path, and they differ when width and height exceed 3.
C3_StartExit ==
  gen.pc = "done" =>
    /\ gen.startPos = [x |-> 1, y |-> 1]
    /\ gen.exitPos = [x |-> gen.width - 2, y |-> gen.height - 2]
    /\ gen.grid[gen.startPos.y][gen.startPos.x] = Path
    /\ gen.grid[gen.exitPos.y][gen.exitPos.x] = Path
    /\ (gen.width > 3 /\ gen.height > 3 => gen.exitPos # gen.startPos)

\* the 15 x 11 maze of the scenario, finished
C3_Witness ==
  /\ gen.pc = "done" /\ gen.width = 15 /\ gen.height = 11
  /\ gen.exitPos = [x |-> 13, y |-> 9]

\* the rooms (odd, odd cells) that carvePath has not entered yet
WallRooms(g) ==
  { c \in Cells(g) : c[1] % 2 = 1 /\ c[2] % 2 = 1 /\ g.grid[c[2]][c[1]] = Wall }

RECURSIVE PendingIterations(_)
PendingIterations(stack) ==
  IF stack = << >> THEN 0
  ELSE Len(Head(stack).rest) + 1 + PendingIterations(Tail(stack))

\* the work generate() still has to do: a variant of its loops and recursion
Variant(g) ==
  IF g.pc = "done" THEN 0
  ELSE 1 + (pathsToCreate(g) - g.i) + PendingIterations(g.stack)
         + 6 * Cardinality(WallRooms(g))

\* C5: generate() terminates (every step of it is enabled until it is done
\* and decreases a non-negative variant), and the depth of the carvePath
\* recursion never exceeds width * height / 4.
C5_Terminates ==
  /\ [][Variant(gen') < Variant(gen)]_vars
  /\ [](Variant(gen) >= 0)
  /\ [](gen.pc # "done" => generateSteps(gen) # {})
  /\ [](4 * Len(gen.stack) <= gen.width * gen.height)

\* the recursion as deep as it gets: one activation per room
C5_Witness ==
  /\ gen.pc = "carve" /\ gen.width >= 5 /\ gen.height >= 5
  /\ Len(gen.stack) = Rooms(gen)

\* the pairs of 4-adjacent Path cells
PathEdges(g) ==
  LET P == PathCells(g)
  IN UNION { { { c, d } : d \in Neighbours(c) \cap P } : c \in P }

\* C22: when carvePath(1, 1) has returned and no loop trial has run yet, every
\* room (odd, odd cell) is Path, every other Path cell is the wall between two
\* rooms, all Path cells are reachable from (1, 1) and there is one adjacency
\* less than there are Path cells: the Path cells form a tree, with exactly
\* one simple path between any two of them.
C22_PerfectMaze ==
  (gen.pc = "loops" /\ gen.i = 0) =>
    /\ WallRooms(gen) = { }
    /\ \A c \in PathCells(gen) : c[1] % 2 = 1 \/ c[2] % 2 = 1
    /\ ReachableFromStart(gen) = PathCells(gen)
    /\ Cardinality(PathEdges(gen)) = Cardinality(PathCells(gen)) - 1
    /\ Cardinality(PathCells(gen)) = 2 * Rooms(gen) - 1

\* the 15 x 11 maze carved, with loop trials still to come
C22_Witness ==
  /\ gen.pc = "loops" /\ gen.i = 0 /\ pathsToCreate(gen) > 0
  /\ gen.width = 15 /\ gen.height = 11
  /\ Cardinality(PathEdges(gen)) = 2 * Rooms(gen) - 2

\* the cells in which grid h differs from grid g
ChangedCells(g, h) == { c \in Cells(g) : h.grid[c[2]][c[1]] # g.grid[c[2]][c[1]] }

\* the Path cells among the four neighbours of c, counted on the grid itself
AdjacentPaths(g, c) == Cardinality(Neighbours(c) \cap PathCells(g))

\* C23: the loop-adding pass ends after exactly floor(width * height / 50)
\* trials; a trial changes at most one cell, and only an interior Wall cell
\* with at least 2 adjacent Path cells, which becomes Path; so no Path cell
\* turns Wall and no more cells are added than there are trials.
C23_LoopTrials ==
  [][gen.pc = "loops" =>
       \/ /\ gen'.pc = "done" /\ gen'.grid = gen.grid /\ gen'.i = gen.i
          /\ 50 * gen.i <= gen.width * gen.height
          /\ gen.width * gen.height < 50 * (gen.i + 1)
       \/ /\ gen'.pc = "loops" /\ gen'.i = gen.i + 1
          /\ 50 * gen'.i <= gen.width * gen.height
          /\ Cardinality(ChangedCells(gen, gen')) <= 1
          /\ \A c \in ChangedCells(gen, gen') :
               /\ 0 < c[1] /\ c[1] < gen.width - 1
               /\ 0 < c[2] /\ c[2] < gen.height - 1
               /\ gen.grid[c[2]][c[1]] = Wall /\ gen'.grid[c[2]][c[1]] = Path
               /\ AdjacentPaths(gen, c) >= 2
          /\ Cardinality(PathCells(gen')) <= 2 * Rooms(gen) - 1 + gen'.i]_vars

\* the 15 x 11 maze finished, each of its three trials having opened a wall
C23_Witness ==
  /\ gen.pc = "done" /\ gen.width = 15 /\ gen.height = 11 /\ gen.i = 3
  /\ Cardinality(PathCells(gen)) = 2 * Rooms(gen) - 1 + 3

(***************************************************************************)
(* Properties of the game session                                          *)
(***************************************************************************)
\* C6: from a state in which a move is under way, no step re-assigns
\* moveStartPos, moveTargetPos or moveStartTime (the start time only grows
\* older), whatever keys are held; and the move ends only when progress has
\* reached 1 or a new game is started.
C6_MovementAtomic ==
  [][game.isMoving =>
       /\ game'.moveStartPos = game.moveStartPos
       /\ game'.moveTargetPos = game.moveTargetPos
       /\ game'.moveStartTime <= game.moveStartTime
       /\ ~game'.isMoving =>
            \/ 0 - game.moveStartTime >= game.moveDuration
            \/ game.gameState # "playing" /\ game'.gameState = "playing"]_vars

\* a frame has interpolated the player strictly between the two ends of a move
C6_Witness ==
  /\ game.gameState = "playing" /\ game.isMoving
  /\ game.moveStartTime < 0
  /\ << game.player.x, game.player.y >> # << game.moveStartPos.x, game.moveStartPos.y >>
  /\ << game.player.x, game.player.y >> # << game.moveTargetPos.x, game.moveTargetPos.y >>

\* squared distance, in pixels, from the point (x, y) to the square of cell c
DistSqToCell(x, y, c) ==
  LET left == c[1] * cellSize
      top  == c[2] * cellSize
      dx == IF x < left THEN left - x
            ELSE IF x > left + cellSize THEN x - (left + cellSize) ELSE 0
      dy == IF y < top THEN top - y
            ELSE IF y > top + cellSize THEN y - (top + cellSize) ELSE 0
  IN dx * dx + dy * dy

RadiusPx(s) == s.player.radius \div PosDen
WallCells(g) == { c \in Cells(g) : g.grid[c[2]][c[1]] = Wall }
\* every cell position a circle inside the canvas can come near, in or out of the maze
PlaneCells(s) ==
  (-1..(Max(s.maze.width, s.canvas.width \div cellSize) + 1))
    \X (-1..(Max(s.maze.height, s.canvas.height \div cellSize) + 1))
InCanvas(s, x, y) ==
  /\ x - RadiusPx(s) >= 0 /\ x + RadiusPx(s) <= s.canvas.width
  /\ y - RadiusPx(s) >= 0 /\ y + RadiusPx(s) <= s.canvas.height

\* C7: canMoveTo rejects every position whose circle comes closer than the
\* radius to the square of any Wall cell of the whole maze, and it accepts
\* exactly the positions inside the canvas that are at distance >= radius
\* (touching included) from every cell isWall reports, so the 3x3
\* neighbourhood it looks at misses no overlapping cell.
C7_CollisionSound ==
  LET r2 == RadiusPx(game) * RadiusPx(game)
  IN /\ \A c \in WallCells(game.maze) :
          DistSqToCell(probe.x, probe.y, c) < r2 => ~probe.ok
     /\ probe.ok <=>
          /\ InCanvas(game, probe.x, probe.y)
          /\ \A c \in PlaneCells(game) :
               isWall(game.maze, c[1], c[2]) => DistSqToCell(probe.x, probe.y, c) >= r2

\* an accepted position whose circle touches a Wall cell: distance = radius
C7_Witness ==
  /\ probe.ok
  /\ \E c \in WallCells(game.maze) :
       DistSqToCell(probe.x, probe.y, c) = RadiusPx(game) * RadiusPx(game)

\* the player is strictly closer than cellSize / 2 to the centre of the exit cell
NearExit(s) ==
  LET dx == s.player.x - CellCentre(s.maze.exitPos).x * PosDen
      dy == s.player.y - CellCentre(s.maze.exitPos).y * PosDen
      half == (cellSize * PosDen) \div 2
  IN 2 * half = cellSize * PosDen /\ dx * dx + dy * dy < half * half

\* the step is a frame that ran update(): the only steps that set lastFrameTime
UpdateRan ==
  game.gameState = "playing" /\ game.lastFrameTime # 0 /\ game'.lastFrameTime = 0

\* C8: a frame that runs update() while playing leaves the session won exactly
\* when the updated position is strictly closer than cellSize / 2 to the exit
\* cell's centre, and no other step makes the session won.
C8_WinTrigger ==
  [][/\ UpdateRan => (game'.gameState = "victory" <=> NearExit(game'))
     /\ (game.gameState # "victory" /\ game'.gameState = "victory")
          => UpdateRan /\ NearExit(game')]_vars

C8_Witness ==
  /\ game.gameState = "victory" /\ game.screen = "victoryScreen"
  /\ NearExit(game) /\ game.gameTime > 0

\* C9: the timer callback that brings gameTime to 0 while playing ends the
\* game as lost in that same step, a move under way or not.
C9_TimerExhaustion ==
  [][(game.gameState = "playing" /\ game.gameTime > 0 /\ game'.gameTime <= 0)
       => game'.gameState = "defeat" /\ game'.screen = "gameOverScreen"]_vars

\* lost at 0 in the middle of a move into the exit cell
C9_Witness ==
  /\ game.gameState = "defeat" /\ game.gameTime = 0
  /\ game.isMoving
  /\ game.moveTargetPos = [x |-> CellCentre(game.maze.exitPos).x * PosDen,
                           y |-> CellCentre(game.maze.exitPos).y * PosDen]
  /\ << game.player.x, game.player.y >> # << game.moveStartPos.x, game.moveStartPos.y >>

\* C10: an interval is active exactly when the game is playing, there is never
\* more than one, and the active one is the one gameTimer names.
C10_TimerCancelled ==
  /\ game.intervals # {} <=> game.gameState = "playing"
  /\ Cardinality(game.intervals) <= 1
  /\ game.gameState = "playing" => game.intervals = { game.gameTimer }

\* a finished game: gameTimer still names the interval, which is cancelled
C10_Witness ==
  /\ game.gameState \in { "victory", "defeat" }
  /\ game.gameTimer # 0 /\ game.intervals = {}

\* C11: gameState changes only along these edges: start, victory or defeat to
\* playing, by choosing a difficulty on the difficulty screen; playing to
\* defeat, by the timer callback that takes gameTime to 0; playing to victory,
\* by a frame that ran update().  So victory and defeat are entered only from
\* playing and neither turns into the other.
C11_PhaseEdges ==
  [][game'.gameState # game.gameState =>
       \/ /\ game.gameState \in { "start", "victory", "defeat" }
          /\ game'.gameState = "playing"
          /\ game.screen = "difficultyScreen" /\ game'.screen = "gameHUD"
       \/ /\ game.gameState = "playing" /\ game'.gameState = "defeat"
          /\ game'.gameTime = game.gameTime - 1 /\ game'.gameTime <= 0
       \/ /\ game.gameState = "playing" /\ game'.gameState = "victory"
          /\ UpdateRan]_vars

\* a retry: a game just started, after an earlier game in which the player moved
C11_Witness ==
  /\ game.gameState = "playing" /\ game.screen = "gameHUD"
  /\ game.gameTime = difficultySettings[game.selectedDifficulty].timeLimit
  /\ ~game.isMoving
  /\ game.moveTargetPos # [x |-> 0, y |-> 0]
  /\ game.moveTargetPos # [x |-> game.player.x, y |-> game.player.y]

CellPaints(l) == { q \in BagToSet(l.ctx) : q.kind \in { "wall", "path" } }
\* squared distance, in length units, from the player to the centre of cell c
CentreDistSq(l, c) ==
  LET dx == l.player.x - (c[1] * cellSize + cellSize \div 2) * PosDen
      dy == l.player.y - (c[2] * cellSize + cellSize \div 2) * PosDen
  IN dx * dx + dy * dy
Rendered(l) == l.ctx # EmptyBag

\* C17: rendering once more with the same maze, player and light radius leaves
\* the canvases as they are, every cell painted once with the same intensity,
\* and leaves the maze and the player as they are.
C17_RenderIdempotent ==
  Rendered(light) =>
    /\ renderFrame(light) = light
    /\ \A q \in BagToSet(light.ctx) : CopiesIn(q, light.ctx) = 1

C17_Witness ==
  /\ Rendered(light)
  /\ \E q \in CellPaints(light) : q.kind = "wall" /\ q.intensity > 0
  /\ \E q \in CellPaints(light) : q.kind = "path" /\ q.intensity > 0

C19_MonotoneFalloff ==
  \A a \in CellPaints(light) : \A b \in CellPaints(light) :
    CentreDistSq(light, << a.x, a.y >>) < CentreDistSq(light, << b.x, b.y >>)
      => a.intensity >= b.intensity

\* two painted cells at different distances, the nearer one strictly brighter
C19_Witness ==
  \E a \in CellPaints(light) : \E b \in CellPaints(light) :
    /\ CentreDistSq(light, << a.x, a.y >>) < CentreDistSq(light, << b.x, b.y >>)
    /\ a.intensity > b.intensity /\ b.intensity > 0

\* C14: on a maze just constructed and on a finished one (no query can run in
\* between), for every (x, y) outside the grid isWall is true and isPath is
\* false, and for every (x, y) inside it isWall is the negation of isPath.
C14_OutOfBounds ==
  gen.pc \in { "constructed", "done" } =>
    \A x \in (-OobMargin)..(gen.width - 1 + OobMargin) :
      \A y \in (-OobMargin)..(gen.height - 1 + OobMargin) :
        IF x < 0 \/ x >= gen.width \/ y < 0 \/ y >= gen.height
        THEN isWall(gen, x, y) /\ ~isPath(gen, x, y)
        ELSE isWall(gen, x, y) <=> ~isPath(gen, x, y)

\* a finished maze asked just outside each of its four sides, and inside
C14_Witness ==
  /\ gen.pc = "done" /\ gen.width >= 5 /\ gen.height >= 5
  /\ isWall(gen, -1, 1) /\ isWall(gen, gen.width, 1)
  /\ isWall(gen, 1, -1) /\ isWall(gen, 1, gen.height)
  /\ ~isPath(gen, gen.width, gen.height)
  /\ isPath(gen, 1, 1) /\ ~isWall(gen, 1, 1)
  /\ \E c \in Cells(gen) : c[1] \in 1..(gen.width - 2) /\ c[2] \in 1..(gen.height - 2)
                             /\ isWall(gen, c[1], c[2])


\* what the game canvas shows after a render() of session s
Snapshot(s) == [maze |-> s.maze, x |-> s.player.x, y |-> s.player.y]

\* C20: in a frame that runs update() while playing, the movement is advanced
\* first, the win check then looks at the advanced position, and render() comes
\* last: if the session still plays, the canvas shows the maze of the update
\* (the same one as before the frame) and the position the update produced; if
\* the update ended the session, nothing is painted in that frame.  Nothing
\* else paints the canvas.
C20_TickOrder ==
  [][/\ UpdateRan =>
          /\ game'.maze = game.maze
          /\ game'.gameState = "playing" <=> ~NearExit(game')
          /\ game'.gameState = "playing" => game'.drawn = Snapshot(game')
          /\ game'.gameState # "playing" => game'.drawn = game.drawn
     /\ (game'.drawn # game.drawn /\ game'.drawn # Blank)
          => UpdateRan /\ game'.gameState = "playing"]_vars

\* won in a frame that moved the player: the canvas still shows the maze with
\* the player where the frame before had painted it
C20_Witness ==
  /\ game.gameState = "victory"
  /\ game.drawn # Blank /\ game.drawn.maze = game.maze
  /\ game.drawn # Snapshot(game)
  /\ game.lastFrameTime = 0


\* C15: once a game has its maze, no frame (movement, collision test, win
\* check, render), no timer callback, no resize of the window and no click on
\* the screens after the game changes the maze: every cell, the size, the
\* start and the exit stay as generate() left them.
C15_MazeImmutable ==
  [][game'.maze = game.maze /\ game.maze # NullMaze]_vars

\* won after accepted and refused moves, the timer having fired, and the
\* window resized after the last render: the maze is still as generated
C15_Witness ==
  /\ game.gameState = "victory" /\ game.drawn = Blank
  /\ game.window # << 400, 400 >>
  /\ game.gameTime < LateSeconds
  /\ game.maze = NewMaze(game.mazeWidth, game.mazeHeight, 1000)


\* the centre of the start cell (1, 1)
StartCentre == [x |-> (cellSize + cellSize \div 2) * PosDen,
                y |-> (cellSize + cellSize \div 2) * PosDen]

\* C12: every start with a difficulty of the table leaves the session playing
\* with a maze generated in that start for the recomputed size, the player at
\* the centre of the start cell (1, 1), no move under way, and the time limit
\* (90, 60, 40 seconds for easy, medium, hard), the light radius and the move
\* duration of the chosen tier; whatever the game before left behind, the
\* first update() moves the player only by a move started from the start cell
\* in that frame.
C12_FreshStart ==
  [][game'.selectedDifficulty \in Tiers =>
       LET tier == difficultySettings[game'.selectedDifficulty]
       IN /\ game'.gameState = "playing"
          /\ \E seed \in StartSeeds :
               game'.maze = NewMaze(game'.mazeWidth, game'.mazeHeight, seed)
          /\ game'.maze.startPos = [x |-> 1, y |-> 1]
          /\ game'.player = [x |-> StartCentre.x, y |-> StartCentre.y,
                             radius |-> 8 * PosDen, lightRadius |-> tier.lightRadius]
          /\ ~game'.isMoving
          /\ game'.gameTime = tier.timeLimit
          /\ game'.moveDuration = tier.moveDuration
          /\ tier.timeLimit = CASE game'.selectedDifficulty = "easy" -> 90
                                [] game'.selectedDifficulty = "medium" -> 60
                                [] game'.selectedDifficulty = "hard" -> 40
          /\ \A pressed \in PressedSets :
               LET after == update(game', pressed)
               IN /\ after.player = game'.player
                  /\ after.isMoving =>
                       /\ after.moveStartPos = StartCentre
                       /\ after.moveStartTime = 0]_vars

\* a game on the easy tier started after a game that was lost in the middle
\* of a move away from the start cell
C12_Witness ==
  /\ game.gameState = "playing" /\ game.screen = "gameHUD"
  /\ game.selectedDifficulty = "easy" /\ game.gameTime = 90
  /\ game.moveDuration = 160 /\ game.player.lightRadius = 120
  /\ ~game.isMoving
  /\ game.moveStartPos = StartCentre /\ game.moveTargetPos # StartCentre
  /\ game.moveStartTime = -45
  /\ game.player.x = StartCentre.x /\ game.player.y = StartCentre.y

\* C13: a start with a difficulty that is not in the table raises an error
\* and sets nothing up: no time limit, move duration, light radius or maze
\* size is taken from any tier, no maze or player is made, no timer and no
\* frame loop is started and the screen stays the difficulty screen.
C13_UnknownDifficulty ==
  game.screen = "difficultyScreen" =>
    \A id \in DifficultyIds \ Tiers : \A seed \in StartSeeds :
      LET after == selectDifficulty(game, id, seed)
      IN /\ after.uncaught
         /\ after.gameTime = game.gameTime
         /\ after.moveDuration = game.moveDuration
         /\ after.maze = game.maze /\ after.player = game.player
         /\ after.mazeWidth = game.mazeWidth /\ after.mazeHeight = game.mazeHeight
         /\ after.intervals = game.intervals /\ after.gameTimer = game.gameTimer
         /\ after.rafPending = game.rafPending
         /\ after.screen = game.screen

\* the unknown difficulty chosen after a lost game
C13_Witness ==
  /\ game.selectedDifficulty \notin Tiers /\ game.uncaught
  /\ game.screen = "difficultyScreen"
  /\ game.maze # NullMaze /\ game.gameTime = 0
  /\ game.intervals = { } /\ game.rafPending = 0


\* C21: whatever the window and the tier, resizeCanvas leaves mazeWidth odd
\* and between 15 and 51 and mazeHeight odd and between 11 and 31, and every
\* maze was generated with such a width and height.
C21_MazeSizing ==
  /\ game.mazeWidth % 2 = 1 /\ 15 <= game.mazeWidth /\ game.mazeWidth <= 51
  /\ game.mazeHeight % 2 = 1 /\ 11 <= game.mazeHeight /\ game.mazeHeight <= 31
  /\ game.maze # NullMaze =>
       /\ game.maze.width % 2 = 1 /\ 15 <= game.maze.width /\ game.maze.width <= 51
       /\ game.maze.height % 2 = 1 /\ 11 <= game.maze.height /\ game.maze.height <= 31
       /\ DOMAIN game.maze.grid = 0..(game.maze.height - 1)
       /\ DOMAIN game.maze.grid[0] = 0..(game.maze.width - 1)

\* the hard tier in a window beyond the largest canvas: the width comes out
\* odd at the maximum, the height is even (32) before it is made odd
C21_Witness ==
  /\ game.selectedDifficulty = "hard" /\ game.maze # NullMaze
  /\ game.canvas = [width |-> 1280, height |-> 800]
  /\ game.mazeWidth = 51 /\ game.mazeHeight = 31
  /\ game.maze.width = 51 /\ game.maze.height = 31


\* p lies on the segment from a to b, which runs along one axis
OnSegment(p, a, b) ==
  /\ Min(a.x, b.x) <= p.x /\ p.x <= Max(a.x, b.x)
  /\ Min(a.y, b.y) <= p.y /\ p.y <= Max(a.y, b.y)
  /\ a.x = b.x \/ a.y = b.y

\* C24: in a frame that runs update() with a move under way, if the time since
\* the move started has reached moveDuration (progress 1), the player is put
\* exactly on the move's target and is no longer moving; otherwise the player
\* is still moving and on the segment from the move's start to its target.
C24_MoveCompletion ==
  [][(UpdateRan /\ game.isMoving) =>
       LET elapsed == 0 - game.moveStartTime
       IN /\ elapsed >= game.moveDuration =>
               /\ ~game'.isMoving
               /\ game'.player.x = game.moveTargetPos.x
               /\ game'.player.y = game.moveTargetPos.y
          /\ elapsed < game.moveDuration =>
               /\ game'.isMoving
               /\ OnSegment(game'.player, game.moveStartPos, game.moveTargetPos)]_vars

\* the frame in which a move has just been completed, away from the start cell
C24_Witness ==
  /\ game.gameState = "playing" /\ ~game.isMoving /\ game.lastFrameTime = 0
  /\ game.moveStartTime = 0 - game.moveDuration
  /\ game.player.x = game.moveTargetPos.x /\ game.player.y = game.moveTargetPos.y
  /\ game.moveStartPos # StartCentre /\ game.moveStartPos # game.moveTargetPos


\* the directions in the order in which updatePlayer asks for them
Priority == << "up", "down", "left", "right" >>
FirstHeld(pressed) ==
  Priority[CHOOSE i \in 1..4 : Priority[i] \in pressed /\ \A j \in 1..(i - 1) : Priority[j] \notin pressed]
\* the position one cell from p in direction d
OneCell(p, d) ==
  CASE d = "up"    -> [x |-> p.x, y |-> p.y - cellSize * PosDen]
    [] d = "down"  -> [x |-> p.x, y |-> p.y + cellSize * PosDen]
    [] d = "left"  -> [x |-> p.x - cellSize * PosDen, y |-> p.y]
    [] d = "right" -> [x |-> p.x + cellSize * PosDen, y |-> p.y]

\* C25: with no move under way and directions held, updatePlayer tries the
\* first held direction in the order up, down, left, right and no other: the
\* move it starts, if any, is the one to the cell next door in that direction;
\* and every move that starts changes exactly one coordinate, by one cell.
C25_DirectionPriority ==
  /\ [](game.gameState = "playing" /\ ~game.isMoving =>
          \A pressed \in PressedSets \ { { } } :
            LET after == updatePlayer(game, pressed)
                here  == [x |-> game.player.x, y |-> game.player.y]
                dest  == OneCell(here, FirstHeld(pressed))
            IN IF after.isMoving
               THEN after.moveStartPos = here /\ after.moveTargetPos = dest
               ELSE after = game /\ ~canMoveTo(game, dest.x, dest.y))
  /\ [][(~game.isMoving /\ game'.isMoving) =>
          \E d \in Keys :
            game'.moveTargetPos = OneCell(game'.moveStartPos, d)]_vars

\* a move down just started from a cell where the way right was free as well
C25_Witness ==
  /\ game.gameState = "playing" /\ game.isMoving /\ game.moveStartTime = 0
  /\ game.moveTargetPos = OneCell(game.moveStartPos, "down")
  /\ canMoveTo(game, OneCell(game.moveStartPos, "right").x, game.moveStartPos.y)
  /\ updatePlayer([game EXCEPT !.isMoving = FALSE], { "down", "right" }).moveTargetPos
       = game.moveTargetPos

\* C26: a destination refused by canMoveTo changes nothing.  In every idle
\* state of a game in progress, for every set of held directions whose first
\* direction (in the order up, down, left, right) leads to a refused
\* destination, updatePlayer leaves the player's position, isMoving,
\* moveStartPos, moveTargetPos, moveStartTime and lastInputTime as they were,
\* asks for no sound and raises no error; the whole session is in fact left
\* untouched.
C26_RejectedChangesNothing ==
  game.gameState = "playing" /\ ~game.isMoving =>
    \A pressed \in PressedSets \ { { } } :
      LET dest   == OneCell([x |-> game.player.x, y |-> game.player.y], FirstHeld(pressed))
          after  == updatePlayer(game, pressed)
          effect == acceptInputEffects(game, pressed)
      IN ~canMoveTo(game, dest.x, dest.y) =>
           /\ after.player = game.player
           /\ after.isMoving = game.isMoving
           /\ after.moveStartPos = game.moveStartPos
           /\ after.moveTargetPos = game.moveTargetPos
           /\ after.moveStartTime = game.moveStartTime
           /\ after.lastInputTime = game.lastInputTime
           /\ after.uncaught = game.uncaught
           /\ after = game
           /\ effect.sounds = << >>

\* an idle player that has completed a move, right after a frame, with a wall
\* in one direction: an update with that direction held leaves every field as
\* it is and asks for no sound
C26_Witness ==
  /\ game.gameState = "playing"
  /\ ~game.isMoving
  /\ game.lastFrameTime = 0
  /\ game.lastInputTime < 0
  /\ game.moveStartPos # game.moveTargetPos
  /\ game.player.x = game.moveTargetPos.x
  /\ game.player.y = game.moveTargetPos.y
  /\ \E d \in Keys :
       LET dest == OneCell([x |-> game.player.x, y |-> game.player.y], d)
       IN /\ ~canMoveTo(game, dest.x, dest.y)
          /\ updatePlayer(game, { d }) = game
          /\ acceptInputEffects(game, { d }).sounds = << >>

\* the directions of a set of held keys whose one-cell destination canMoveTo
\* accepts from where the player of s stands
FreeDirections(s, pressed) ==
  { d \in pressed :
      LET dest == OneCell([x |-> s.player.x, y |-> s.player.y], d)
      IN canMoveTo(s, dest.x, dest.y) }

\* C27: a blocked direction does not prevent a move in another held direction
\* whose destination is valid.  In every idle state of a game in progress, for
\* every set of held directions, a refused first direction leaves the player
\* idle, and when some held direction leads to an accepted destination the
\* update of that tick starts a move to such a destination.
C27_OtherDirectionMoves ==
  game.gameState = "playing" /\ ~game.isMoving =>
    \A pressed \in PressedSets \ { { } } :
      LET after == updatePlayer(game, pressed)
          here  == [x |-> game.player.x, y |-> game.player.y]
      IN /\ FirstHeld(pressed) \notin FreeDirections(game, pressed) => ~after.isMoving
         /\ FreeDirections(game, pressed) # { } =>
              /\ after.isMoving
              /\ \E d \in FreeDirections(game, pressed) :
                   after.moveTargetPos = OneCell(here, d)

\* the player stands idle where up is walled and right is open; with both keys
\* held the update starts nothing, in this tick and in every later one
C27_Witness ==
  /\ game.gameState = "playing"
  /\ ~game.isMoving
  /\ FreeDirections(game, { "up", "right" }) = { "right" }
  /\ updatePlayer(game, { "up", "right" }) = game
  /\ updatePlayer(game, { "right" }).isMoving

\* the player of s stands idle where its latest move took it, and that move
\* began less than Horizon ago, so that moveStartTime still tells when
CompletedMove(s) ==
  /\ s.gameState = "playing"
  /\ ~s.isMoving
  /\ s.moveStartPos # s.moveTargetPos
  /\ s.player.x = s.moveTargetPos.x
  /\ s.player.y = s.moveTargetPos.y
  /\ s.moveStartTime > 0 - Horizon

\* C28: after the player becomes idle no new move starts before inputDelay has
\* elapsed.  A move is complete no earlier than moveDuration after it began, so
\* whenever a move starts from a state where the previous move is complete, at
\* least moveDuration + inputDelay have passed since the previous move began.
C28_Debounce ==
  [][(CompletedMove(game) /\ game'.isMoving) =>
        0 - game.moveStartTime >= game.moveDuration + inputDelay]_vars

\* the player stands idle where a move has just ended, less than inputDelay
\* after the earliest moment that move can have ended, and an update with a
\* free direction held starts the next move
C28_Witness ==
  /\ CompletedMove(game)
  /\ 0 - game.moveStartTime < game.moveDuration + inputDelay
  /\ \E d \in Keys : updatePlayer(game, { d }).isMoving

\* C29: gameTime goes down by exactly 1 at each firing of the timer, the timer
\* fires only while the game is playing, and no other step (a frame with its
\* update, movement, win check and render; a click; the clock) changes
\* gameTime, but for the start of a game, which sets it to the tier's timeLimit.
C29_TimerOnly ==
  /\ [](game.intervals # { } =>
          /\ game.gameState = "playing"
          /\ timerCallback(game).gameTime = game.gameTime - 1)
  /\ [][game'.gameTime # game.gameTime =>
          \/ /\ game.gameState = "playing"
             /\ game.intervals # { }
             /\ game'.gameTime = game.gameTime - 1
             /\ game'.player = game.player
             /\ game'.isMoving = game.isMoving
          \/ /\ game.screen = "difficultyScreen"
             /\ game'.gameState = "playing"
             /\ game'.gameTime = difficultySettings[game'.selectedDifficulty].timeLimit]_vars

\* two seconds into a game, in the middle of a move, right after a frame that
\* ran update(): the timer has fired twice and the frames have left gameTime
\* alone
C29_Witness ==
  /\ game.gameState = "playing"
  /\ game.gameTime = difficultySettings[game.selectedDifficulty].timeLimit - 2
  /\ game.isMoving
  /\ game.lastFrameTime = 0
  /\ << game.player.x, game.player.y >> # << game.moveStartPos.x, game.moveStartPos.y >>

\* the player's grid cell and c = ceil(lightRadius / cellSize) + 2
PlayerGrid(l) ==
  << l.player.x \div (cellSize * PosDen), l.player.y \div (cellSize * PosDen) >>
WindowReach(l) ==
  CHOOSE k \in 0..(l.player.lightRadius + 1) :
    /\ k * cellSize >= l.player.lightRadius
    /\ (k - 1) * cellSize < l.player.lightRadius
\* the cells of the maze from lo cells before to hi cells after the player's
\* cell, on both axes
Window(l, lo, hi) ==
  { c \in Cells(l.maze) :
      /\ PlayerGrid(l)[1] - lo <= c[1] /\ c[1] <= PlayerGrid(l)[1] + hi
      /\ PlayerGrid(l)[2] - lo <= c[2] /\ c[2] <= PlayerGrid(l)[2] + hi }

\* C30, as stated: the cells the visibility pass looks at are those of the
\* maze at most c = ceil(lightRadius / cellSize) + 2 cells to the left, right,
\* up and down of the player's cell, and the pass blackens or paints no other.
C30_SymmetricWindow ==
  LET c == WindowReach(light) + 2
  IN /\ CandidateCells(light) = Window(light, c, c)
     /\ Rendered(light) =>
          /\ light.shadowCanvas = { w \in Window(light, c, c) : isWall(light.maze, w[1], w[2]) }
          /\ \A q \in CellPaints(light) : << q.x, q.y >> \in Window(light, c, c)

\* C30, as the code has it: the window reaches c cells to the left and up of
\* the player's cell but c - 1 cells to the right and down (the loops stop
\* before playerGrid + c), clamped to the maze.  Every Wall cell of that
\* window and no other is on the shadow canvas, and nothing is painted outside
\* it.
C30_HalfOpenWindow ==
  LET c == WindowReach(light) + 2
  IN /\ CandidateCells(light) = Window(light, c, c - 1)
     /\ Rendered(light) =>
          /\ light.shadowCanvas = { w \in Window(light, c, c - 1) : isWall(light.maze, w[1], w[2]) }
          /\ \A q \in CellPaints(light) : << q.x, q.y >> \in Window(light, c, c - 1)

\* a rendered frame whose window is cut by the maze on the low side and ends
\* inside the maze on the high side: the column c cells to the right of the
\* player exists, has a Wall cell in the rows of the window, and is not looked at
C30_Witness ==
  LET c == WindowReach(light) + 2
  IN /\ Rendered(light)
     /\ PlayerGrid(light)[1] - c < 0
     /\ PlayerGrid(light)[1] + c < light.maze.width
     /\ \E w \in Window(light, c, c) \ Window(light, c, c - 1) :
          isWall(light.maze, w[1], w[2]) /\ w \notin light.shadowCanvas

\* squared distance, in length units, from the point (x, y) to the square of
\* cell c
UnitDistSqToCell(x, y, c) ==
  LET size == cellSize * PosDen
      left == c[1] * size
      top  == c[2] * size
      dx == IF x < left THEN left - x
            ELSE IF x > left + size THEN x - (left + size) ELSE 0
      dy == IF y < top THEN top - y
            ELSE IF y > top + size THEN y - (top + size) ELSE 0
  IN dx * dx + dy * dy
\* the grid cell that holds the player's position
PlayerCell(s) ==
  << s.player.x \div (cellSize * PosDen), s.player.y \div (cellSize * PosDen) >>

\* C31: while a game is being played, in the middle of a move as well as
\* between moves, no Wall cell's square comes closer to the player's position
\* than the player's radius (8 pixels), and the position lies in a Path cell.
C31_NeverInWall ==
  game.gameState = "playing" =>
    /\ game.player.radius = 8 * PosDen
    /\ \A c \in WallCells(game.maze) :
         UnitDistSqToCell(game.player.x, game.player.y, c)
           >= game.player.radius * game.player.radius
    /\ isPath(game.maze, PlayerCell(game)[1], PlayerCell(game)[2])

\* in the middle of a move, off both cell centres, with a Wall cell's square
\* half a cell away from the position
C31_Witness ==
  /\ game.gameState = "playing"
  /\ game.isMoving
  /\ << game.player.x, game.player.y >> # << game.moveStartPos.x, game.moveStartPos.y >>
  /\ << game.player.x, game.player.y >> # << game.moveTargetPos.x, game.moveTargetPos.y >>
  /\ \E c \in WallCells(game.maze) :
       4 * UnitDistSqToCell(game.player.x, game.player.y, c)
         = (cellSize * PosDen) * (cellSize * PosDen)

\* C32: once a game has been started, a player that is not moving stands
\* exactly on the centre of a Path cell of the maze, x = gx * cellSize +
\* cellSize / 2 and y = gy * cellSize + cellSize / 2; and every move that
\* starts goes from the position the player has to a target that differs from
\* it by cellSize on one axis and by nothing on the other.
C32_OnCentres ==
  /\ [](game.maze # NullMaze /\ ~game.isMoving =>
          \E c \in PathCells(game.maze) :
            /\ game.player.x = (c[1] * cellSize + cellSize \div 2) * PosDen
            /\ game.player.y = (c[2] * cellSize + cellSize \div 2) * PosDen)
  /\ [][(~game.isMoving /\ game'.isMoving) =>
          LET dx == game'.moveTargetPos.x - game'.moveStartPos.x
              dy == game'.moveTargetPos.y - game'.moveStartPos.y
              size == cellSize * PosDen
          IN /\ game'.moveStartPos = [x |-> game.player.x, y |-> game.player.y]
             /\ \/ dx \in { size, 0 - size } /\ dy = 0
                \/ dy \in { size, 0 - size } /\ dx = 0]_vars

\* idle on the centre of a Path cell two moves away from the start cell, right
\* after the frame that completed the second move
C32_Witness ==
  /\ game.gameState = "playing" /\ ~game.isMoving /\ game.lastFrameTime = 0
  /\ game.player.x = game.moveTargetPos.x /\ game.player.y = game.moveTargetPos.y
  /\ game.moveStartPos # StartCentre
  /\ game.moveTargetPos # StartCentre
  /\ game.moveStartPos # game.moveTargetPos
  /\ isPath(game.maze, PlayerCell(game)[1], PlayerCell(game)[2])

(***************************************************************************)
(* canMoveTo at the centres of the grid cells, in and around the maze, for  *)
(* every tier and window tried                                             *)
(***************************************************************************)
InitCentres ==
  /\ game \in { selectDifficulty(ShadowMazeGame(w), d, seed) :
                 w \in WindowSizes, d \in Tiers, seed \in GameSeeds }
  /\ gen = IdleGen
  /\ probe = NoProbe
  /\ controls = GameControls
  /\ light = LightingSystem

\* one call of canMoveTo, as updatePlayer makes it from a neighbouring centre
ProbeCentre ==
  /\ probe = NoProbe
  /\ \E c \in PlaneCells(game) :
       LET p == CellCentre([x |-> c[1], y |-> c[2]])
       IN probe' = [x |-> p.x, y |-> p.y,
                    ok |-> canMoveTo(game, p.x * PosDen, p.y * PosDen)]
  /\ UNCHANGED << gen, game, controls, light >>

NextCentres == ProbeCentre

SpecCentres == InitCentres /\ [][NextCentres]_vars

\* the grid cell that holds the probed point
ProbeCell == << probe.x \div cellSize, probe.y \div cellSize >>

\* C33: for a destination that is the centre of a grid cell and whose circle
\* is inside the canvas, canMoveTo answers true exactly when that cell is a
\* Path cell: the Wall cells beside and diagonal to a Path cell never refuse
\* its centre.
C33_CentresArePaths ==
  (probe # NoProbe /\ InCanvas(game, probe.x, probe.y)) =>
    /\ game.player.radius = 8 * PosDen
    /\ probe.ok <=> isPath(game.maze, ProbeCell[1], ProbeCell[2])

\* the accepted centre of a Path cell with Wall cells on two sides and on the
\* four diagonals
C33_Witness ==
  /\ probe.ok
  /\ InCanvas(game, probe.x, probe.y)
  /\ isPath(game.maze, ProbeCell[1], ProbeCell[2])
  /\ \A d \in { << -1, -1 >>, << 1, -1 >>, << -1, 1 >>, << 1, 1 >> } :
       isWall(game.maze, ProbeCell[1] + d[1], ProbeCell[2] + d[2])
  /\ Cardinality({ k \in 1..4 : isWall(game.maze, ProbeCell[1] + Directions[k].x,
                                        ProbeCell[2] + Directions[k].y) }) >= 2

\* the cells of the maze of s whose centre canMoveTo accepts
AcceptedCells(s) ==
  { c \in Cells(s.maze) :
      canMoveTo(s, (c[1] * cellSize + cellSize \div 2) * PosDen,
                   (c[2] * cellSize + cellSize \div 2) * PosDen) }
\* the cells the player of s can be walked to from the start cell, every move
\* going to a neighbouring cell whose centre canMoveTo accepts
WalkableFromStart(s) ==
  LET start == << s.maze.startPos.x, s.maze.startPos.y >>
  IN FloodFill(AcceptedCells(s), { start }, { start })

\* C34: while a game is being played the maze fits inside the canvas, so that
\* canMoveTo accepts the centre of every Path cell and the exit cell can be
\* walked to from the start cell by accepted moves.
C34_MazeFitsCanvas ==
  game.gameState = "playing" =>
    /\ game.maze.width * cellSize <= game.canvas.width
    /\ game.maze.height * cellSize <= game.canvas.height
    /\ PathCells(game.maze) \subseteq AcceptedCells(game)
    /\ << game.maze.exitPos.x, game.maze.exitPos.y >> \in WalkableFromStart(game)

\* a game being played whose maze is wider and higher than the canvas, the exit
\* cell among the Path cells that cannot be walked to
C34_Witness ==
  /\ game.gameState = "playing"
  /\ game.rafPending > 0 /\ game.intervals # { }
  /\ game.maze.width * cellSize > game.canvas.width
  /\ game.maze.height * cellSize > game.canvas.height
  /\ isPath(game.maze, game.maze.exitPos.x, game.maze.exitPos.y)
  /\ << game.maze.exitPos.x, game.maze.exitPos.y >> \notin WalkableFromStart(game)

(***************************************************************************)
(* Restarts that do not wait for the pending frame callback: the end of a   *)
(* game, Try Again and a difficulty button, frames with no key held        *)
(***************************************************************************)
InitLoops ==
  /\ game \in { TimerCallbacks(
                   selectDifficulty(showScreen(ShadowMazeGame(w), "difficultyScreen"),
                                    difficulty, seed),
                   LateSeconds) :
                 w \in WindowSizes, difficulty \in PlayedTiers, seed \in GameSeeds }
  /\ gen = IdleGen
  /\ probe = NoProbe
  /\ controls = GameControls
  /\ light = LightingSystem

\* one pending gameLoop callback runs, no key held
QuietFrame ==
  /\ game.rafPending > 0
  /\ game' = gameLoop(game, { })
  /\ UNCHANGED << gen, probe, controls, light >>

\* a difficulty button, whether or not a gameLoop callback is still pending
QuickRestart ==
  /\ game.screen = "difficultyScreen"
  /\ game.rafPending < MaxChains
  /\ \E difficulty \in PlayedTiers : \E seed \in GameSeeds :
       game' = selectDifficulty(game, difficulty, seed)
  /\ UNCHANGED << gen, probe, controls, light >>

NextLoops == TimerFire \/ QuietFrame \/ Tick \/ ClickTryAgain \/ QuickRestart

SpecLoops == InitLoops /\ [][NextLoops]_vars

\* C35: at most one chain of gameLoop callbacks is alive at any time, that is
\* at most one callback is pending, whatever the order of the end of a game,
\* the restart and the pending callback; and update() runs at most once per
\* frame: a callback that runs right after one that ran update(), at the same
\* frame time, runs no update().
C35_OneFrameLoop ==
  /\ [](game.rafPending <= 1)
  /\ [][(game.lastFrameTime = 0 /\ game.rafPending > 0)
          => gameLoop(game, { }) \in { game, [game EXCEPT !.rafPending = @ - 1] }]_vars

\* a game being played with two gameLoop callbacks pending: the one of the
\* game before, which found the new game playing when it ran, and the one of
\* startGameLoop
C35_Witness ==
  /\ game.gameState = "playing"
  /\ game.rafPending = 2
  /\ game.lastFrameTime = 0
  /\ game.gameTime < difficultySettings[game.selectedDifficulty].timeLimit

\* C36: once a game has been started, gameTime is between 0 and the time limit
\* of the selected tier; the session is lost only with gameTime = 0 and won
\* only with gameTime > 0.
C36_TimeBounds ==
  game.gameState # "start" =>
    /\ 0 <= game.gameTime
    /\ game.gameTime <= difficultySettings[game.selectedDifficulty].timeLimit
    /\ game.gameState = "defeat" => game.gameTime = 0
    /\ game.gameState = "victory" => game.gameTime > 0
    /\ game.gameState = "playing" => game.gameTime > 0

\* won with time left on a timer that has fired at least once
C36_Witness ==
  /\ game.gameState = "victory"
  /\ 0 < game.gameTime
  /\ game.gameTime < difficultySettings[game.selectedDifficulty].timeLimit

\* C37: the timer firing for as long as its interval exists, every game being
\* played is eventually won or lost, whatever keys are held in its frames.
\* While it is played its interval exists and gameTime is between 1 and the
\* tier's time limit, and every change of gameTime takes 1 off it: the game is
\* over after no more firings than the time limit.
C37_EventuallyEnds ==
  /\ (game.gameState = "playing") ~> (game.gameState \in { "victory", "defeat" })
  /\ [](game.gameState = "playing" =>
          /\ game.intervals # { }
          /\ game.gameTime \in 1..difficultySettings[game.selectedDifficulty].timeLimit)
  /\ [][(game.gameState = "playing" /\ game'.gameTime # game.gameTime) =>
          /\ game'.gameTime = game.gameTime - 1
          /\ game'.gameState = "playing" <=> game'.gameTime > 0]_vars

\* lost by the timer with the player standing idle away from the start cell
C37_Witness ==
  /\ game.gameState = "defeat" /\ game.gameTime = 0
  /\ game.intervals = { }
  /\ ~game.isMoving
  /\ << game.player.x, game.player.y >> # << StartCentre.x, StartCentre.y >>

(***************************************************************************)
(* The window of the visibility pass for light radii and player positions  *)
(* beyond those of the tiers and of the walk: any point of a lattice over   *)
(* the maze, radii from under one cell to over half the maze                *)
(***************************************************************************)
WindowRadii == { 19 * k : k \in 1..RadiusSteps } \cup { 20, 80, 100, 120 }
\* points 29 pixels apart, from the first to the last pixel row and column
WindowPositions(g) ==
  { [x |-> px * PosDen, y |-> py * PosDen] :
      px \in { 29 * i : i \in 0..((g.width * cellSize - 1) \div 29) } \cup { g.width * cellSize - 1 },
      py \in { 29 * j : j \in 0..((g.height * cellSize - 1) \div 29) } \cup { g.height * cellSize - 1 } }

InitWindow ==
  /\ gen = IdleGen
  /\ game = IdleGame
  /\ probe = NoProbe
  /\ controls = GameControls
  /\ \E seed \in GameSeeds :
       LET s == selectDifficulty(IdleGame, "hard", seed)
       IN \E p \in WindowPositions(s.maze) : \E radius \in WindowRadii :
            light = [LightingSystem EXCEPT
                       !.maze = s.maze,
                       !.player = [s.player EXCEPT !.x = p.x, !.y = p.y,
                                                   !.lightRadius = radius]]

NextWindow == RenderFrame

SpecWindow == InitWindow /\ [][NextWindow]_vars

\* C38: the window never leaves out a lit cell.  Every cell of the maze whose
\* centre is strictly closer to the player than lightRadius is one of the
\* cells the pass looks at, playerGrid - c <= x < playerGrid + c and likewise
\* for y, with c = ceil(lightRadius / cellSize) + 2; once rendered, it is
\* painted.
C38_NoLitCellDropped ==
  LET r == light.player.lightRadius * PosDen
      c == WindowReach(light) + 2
      lit == { cell \in Cells(light.maze) : CentreDistSq(light, cell) < r * r }
  IN /\ lit \subseteq CandidateCells(light)
     /\ \A cell \in lit :
          /\ PlayerGrid(light)[1] - c <= cell[1] /\ cell[1] < PlayerGrid(light)[1] + c
          /\ PlayerGrid(light)[2] - c <= cell[2] /\ cell[2] < PlayerGrid(light)[2] + c
     /\ Rendered(light) =>
          \A cell \in lit : \E q \in CellPaints(light) : q.x = cell[1] /\ q.y = cell[2]

\* a rendered frame with a painted cell as far to the right of the player's
\* cell as a lit cell can be, ceil(lightRadius / cellSize) columns, the window
\* ending inside the maze on that side
C38_Witness ==
  LET m == WindowReach(light)
  IN /\ Rendered(light)
     /\ PlayerGrid(light)[1] + (m + 2) < light.maze.width
     /\ \E q \in CellPaints(light) : q.x = PlayerGrid(light)[1] + m

\* the session is over, won or lost
Over(s) == s.gameState \in { "victory", "defeat" }

\* C39: once a game is won or lost, and until the next start, no frame
\* callback and no timer callback changes the player's position, the state of
\* its move or gameTime: no interval is left to fire, a pending gameLoop
\* callback returns at once, and no step changes these fields; a move under
\* way when the game ended stays where its last update() left it.
C39_FrozenAfterEnd ==
  /\ [](Over(game) =>
          /\ game.intervals = { }
          /\ game.rafPending > 0 =>
               \A pressed \in PressedSets :
                 gameLoop(game, pressed) = [game EXCEPT !.rafPending = @ - 1])
  /\ [][(Over(game) /\ Over(game')) =>
          /\ game'.player = game.player
          /\ game'.isMoving = game.isMoving
          /\ game'.moveStartPos = game.moveStartPos
          /\ game'.moveTargetPos = game.moveTargetPos
          /\ game'.gameTime = game.gameTime
          /\ game'.gameState = game.gameState]_vars

\* lost in the middle of a move, the pending frame callback gone since, and the
\* clock past the time the move would have been complete: the player is still
\* between the two cell centres
C39_Witness ==
  /\ game.gameState = "defeat"
  /\ game.rafPending = 0
  /\ game.isMoving
  /\ 0 - game.moveStartTime > game.moveDuration
  /\ << game.player.x, game.player.y >> # << game.moveStartPos.x, game.moveStartPos.y >>
  /\ << game.player.x, game.player.y >> # << game.moveTargetPos.x, game.moveTargetPos.y >>

\* C40: a failed start is atomic.  A start with a difficulty that is not in the
\* table leaves gameState, selectedDifficulty, gameTime, the maze, the player
\* and the timer as they were before the call; in particular it does not leave
\* the session playing without a running timer.
C40_FailedStartAtomic ==
  game.screen = "difficultyScreen" =>
    \A id \in DifficultyIds \ Tiers : \A seed \in StartSeeds :
      LET after == selectDifficulty(game, id, seed)
      IN /\ after.uncaught
         /\ after.gameState = game.gameState
         /\ after.selectedDifficulty = game.selectedDifficulty
         /\ after.gameTime = game.gameTime
         /\ after.maze = game.maze /\ after.player = game.player
         /\ after.gameTimer = game.gameTimer /\ after.intervals = game.intervals
         /\ ~(after.gameState = "playing" /\ after.intervals = { })

\* after the failed start of a session that had lost a game: playing, on the
\* difficulty screen, with the unknown difficulty selected, no time left and no
\* timer
C40_Witness ==
  /\ game.uncaught
  /\ game.gameState = "playing"
  /\ game.selectedDifficulty \notin Tiers
  /\ game.screen = "difficultyScreen"
  /\ game.intervals = { }
  /\ game.gameTime = 0

====
